---- MODULE Spec2Model ----
(***************************************************************************)
(* Model of the survey conversation core of ai-survey: the session report  *)
(* (conversation + data ledgers), the extraction merge of                  *)
(* SurveySessionService.addClientMessage, the progression decision of      *)
(* SurveySessionService.decideAndAskNextQuestion / DummyImpl, the session  *)
(* state operations, and the /init and /respond route handlers.            *)
(*                                                                         *)
(* One survey and at most one session are modelled.  Texts are sequences   *)
(* of string tokens, so that the pass-through collaborator's template      *)
(* combination (`${a}\n\n${b}`) is sequence concatenation.                 *)
(***************************************************************************)
EXTENDS Integers, Sequences, FiniteSets, TLC

----------------------------------------------------------------------------
(* Bounds of the model *)

\* number of question templates of the survey
NumQuestions == 3
\* largest number of keys in one extraction result
MaxExtracted == 2
\* largest length of report.conversation that is explored
MaxConversation == 3
\* largest length of report.data that is explored
MaxData == 3
\* largest number of client messages when every extraction result is explored
MaxMerges == 2

----------------------------------------------------------------------------
(* Survey and question templates *)

KeyNames == <<"yesterdayWork", "todayPlan", "roadblocks", "mood", "extra", "more">>

\* a key that no question template of the survey has
ForeignKey == "unrelated"

\* allDataKeys[0] of a survey without questions (JS undefined)
UndefinedKey == "<undefined>"

\* questionId: null
NoQuestion == 0

Orders == 1..NumQuestions

\* database ids are not the orders
QuestionIdOfOrder(order) == order + 10

\* the question template of a given order; finalOrder = 0: no final question
QuestionTemplate(order, finalOrder) ==
  [ id               |-> QuestionIdOfOrder(order),
    order            |-> order,
    dataKey          |-> KeyNames[order],
    questionTemplate |-> <<"Q", KeyNames[order]>>,
    successTemplate  |-> <<"S", KeyNames[order]>>,
    failTemplate     |-> <<"F", KeyNames[order]>>,
    final            |-> (order = finalOrder),
    type             |-> "freeform" ]

FindBySurveyIdDescending(finalOrder) ==
  [i \in 1..NumQuestions |-> QuestionTemplate(NumQuestions + 1 - i, finalOrder)]

\* QuestionTemplatesRepository.findBySurveyId: ordered by "order" ascending
FindBySurveyId(finalOrder) ==
  [i \in Orders |-> QuestionTemplate(i, finalOrder)]

\* the surveys explored: no final question, the final flag on the last
\* question, or on the one before it
FinalOrders == {0, NumQuestions - 1, NumQuestions}

----------------------------------------------------------------------------
(* Values returned by the language collaborator's extractData *)

NullValue      == [t |-> "null",   s |-> "",       n |-> 0]
\* an object with n keys
ObjectValue(n) == [t |-> "object", s |-> "",       n |-> n]
StringValue(s) == [t |-> "string", s |-> s,        n |-> 0]

ExtractedValues ==
  { NullValue, ObjectValue(0), ObjectValue(1), StringValue("None") }

\* String.prototype.toLowerCase on the strings of the model
ToLowerCase(s) ==
  CASE s = "None"       -> "none"
    [] s = "KCD-13"     -> "kcd-13"
    [] s = "KCD-12"     -> "kcd-12"
    [] s = "No, thanks" -> "no, thanks"
    [] s = "NO"         -> "no"
    [] s = "NET"        -> "net"
    [] s = "No Problems at all" -> "no problems at all"
    [] s = "Yesterday I worked on KCD-12. Today I plan KCD-14"
         -> "yesterday i worked on kcd-12. today i plan kcd-14"
    [] OTHER            -> s

\* String(value)
StringOf(v) ==
  CASE v.t = "string" -> v.s
    [] v.t = "object" -> "[object Object]"
    [] v.t = "null"   -> "null"

----------------------------------------------------------------------------
(* The report: pure operations *)

\* generateId(): ids are fresh; the model draws them from a counter
GenerateId(n) == n

\* reportData of startSession: { conversation: [], data: [] }; flat is the
\* persisted _flatData field: <<>> when the document has none, <<map>> else
InitialReportData == [conversation |-> <<>>, data |-> <<>>, flat |-> <<>>]

\* Array.prototype.findIndex for (d) => d.key === key && d.type === "freeform";
\* 0 stands for JS -1
FindFreeformIndex(data, key) ==
  LET hits == {i \in 1..Len(data) : data[i].key = key /\ data[i].type = "freeform"}
  IN  IF hits = {} THEN 0 ELSE CHOOSE i \in hits : \A j \in hits : i <= j

\* getCurrentReportData, first pass: entriesByKey after the data entries from
\* index i on have been visited
RECURSIVE EntriesByKeyFirstWins(_, _, _)
EntriesByKeyFirstWins(data, i, acc) ==
  IF i > Len(data) THEN acc
  ELSE LET d == data[i]
       IN  EntriesByKeyFirstWins(data, i + 1,
             IF d.key \notin DOMAIN acc
               THEN (d.key :> [value |-> d.value, type |-> d.type]) @@ acc
               ELSE acc)

RECURSIVE EntriesByKeyLastExtractedWins(_, _, _)
EntriesByKeyLastExtractedWins(data, i, acc) ==
  IF i > Len(data) THEN acc
  ELSE LET d == data[i]
           replace == \/ d.key \notin DOMAIN acc
                      \/ acc[d.key].type = "extracted"
       IN  EntriesByKeyLastExtractedWins(data, i + 1,
             IF replace
               THEN (d.key :> [value |-> d.value, type |-> d.type]) @@ acc
               ELSE acc)

RECURSIVE EntriesByKey(_, _, _)
EntriesByKey(data, i, acc) ==
  IF i > Len(data) THEN acc
  ELSE LET d == data[i]
           replace == \/ d.key \notin DOMAIN acc
                      \/ (acc[d.key].type = "extracted" /\ d.type = "freeform")
       IN  EntriesByKey(data, i + 1,
             IF replace
               THEN (d.key :> [value |-> d.value, type |-> d.type]) @@ acc
               ELSE acc)

\* getCurrentReportData: the flattened view _flatData of a data array
FlatData(data) ==
  LET byKey == EntriesByKey(data, 1, <<>>)
  IN  [k \in DOMAIN byKey |-> byKey[k].value]

\* getCurrentReportData: { ...reportData, _flatData: flatData }
GetCurrentReportData(rep) ==
  [conversation |-> rep.conversation, data |-> rep.data,
   flat |-> <<FlatData(rep.data)>>]

\* the last conversation entry with author "agent", <<>> when there is none
LastAgentMsg(conversation) ==
  LET agents == SelectSeq(conversation, LAMBDA m : m.author = "agent")
  IN  IF agents = <<>> THEN <<>> ELSE <<agents[Len(agents)]>>

\* QuestionTemplatesRepository.getById within the survey's templates
GetQuestionById(questions, id) ==
  SelectSeq(questions, LAMBDA q : q.id = id)

\* addClientMessage: the dataKey of the question the client is answering
CurrentQuestionDataKey(conversation, questions) ==
  LET first == IF questions = <<>> THEN UndefinedKey ELSE questions[1].dataKey
      last  == LastAgentMsg(conversation)
  IN  IF last # <<>> /\ last[1].questionId # NoQuestion
        THEN LET qt == GetQuestionById(questions, last[1].questionId)
             IN  IF qt # <<>> THEN qt[1].dataKey ELSE first
        ELSE first

\* the lower-case strings of the model that include "no problems" or its
\* Russian counterpart (String.prototype.includes)
IncludesNoProblems(lower) == lower \in {"no problems at all"}

\* addClientMessage, isNoneValue helper; "net" stands for the Cyrillic word
IsNoneValue(v) ==
  /\ v.t = "string"
  /\ \/ ToLowerCase(v.s) \in {"none", "no", "net"}
     \/ IncludesNoProblems(ToLowerCase(v.s))

\* addClientMessage: whether an extracted value is stored at all
IsStoredStringsOnly(v) == v.t = "string"

IsStoredAlways(v) == TRUE

IsStored(v) ==
  /\ (v.t # "null" \/ IsNoneValue(v))
  /\ ~(v.t = "object" /\ v.n = 0)

\* addClientMessage: the type of the data record made for an extracted key
DataRecordTypeAllFreeform(key, currentKey) == "freeform"

DataRecordTypeAllExtracted(key, currentKey) == "extracted"

DataRecordType(key, currentKey) ==
  IF key = currentKey THEN "freeform" ELSE "extracted"

\* addClientMessage: the loop over Object.entries(extractedData) that fills
\* partialReport.data; returns the data and the next unused id
RECURSIVE StorePartial(_, _, _, _)
StorePartial(entries, currentKey, data, id) ==
  IF entries = <<>> THEN [data |-> data, id |-> id]
  ELSE
    LET e    == Head(entries)
        rest == Tail(entries)
        type == DataRecordType(e.key, currentKey)
        idx  == FindFreeformIndex(data, e.key)
        new  == [id |-> GenerateId(id), key |-> e.key,
                 value |-> StringOf(e.value), type |-> type]
    IN  IF ~IsStored(e.value) THEN StorePartial(rest, currentKey, data, id)
        ELSE IF type = "freeform" /\ idx > 0
          THEN StorePartial(rest, currentKey,
                 [data EXCEPT ![idx].value = StringOf(e.value)], id)
          ELSE StorePartial(rest, currentKey, Append(data, new), id + 1)

\* addClientMessage: merge of one partial data entry into fullReport.data
MergeEntryAlwaysPush(fullData, entry) == Append(fullData, entry)

MergeEntryDedupAll(fullData, entry) ==
  LET hits == {i \in 1..Len(fullData) :
                 fullData[i].key = entry.key /\ fullData[i].type = entry.type}
  IN  IF hits # {}
        THEN [fullData EXCEPT ![CHOOSE i \in hits : \A j \in hits : i <= j] = entry]
        ELSE Append(fullData, entry)

MergeEntryMoveToEnd(fullData, entry) ==
  IF entry.type = "freeform"
    THEN Append(SelectSeq(fullData,
                          LAMBDA d : ~(d.key = entry.key /\ d.type = "freeform")),
                entry)
    ELSE Append(fullData, entry)

MergeEntry(fullData, entry) ==
  IF entry.type = "freeform"
    THEN LET existingIndex == FindFreeformIndex(fullData, entry.key)
         IN  IF existingIndex > 0
               THEN [fullData EXCEPT ![existingIndex] = entry]
               ELSE Append(fullData, entry)
    ELSE Append(fullData, entry)

\* addClientMessage: merge of partialReport.data into fullReport.data
RECURSIVE MergeData(_, _)
MergeData(fullData, partialData) ==
  IF partialData = <<>> THEN fullData
  ELSE MergeData(MergeEntry(fullData, Head(partialData)), Tail(partialData))

----------------------------------------------------------------------------
(* The pass-through language collaborator (DummyImpl) *)

\* rephraseQuestion / rephraseCompletion: the text as it is
RephraseQuestion(question) == question
RephraseCompletion(text) == text

\* combineSuccessWithQuestion / combineFailWithQuestion: `${a}\n\n${b}`
CombineSuccessWithQuestion(success, question) == success \o <<"\n\n">> \o question
CombineQuestionWithFail(fail, question) == question \o <<"\n\n">> \o fail
CombineFailWithQuestion(fail, question) == fail \o <<"\n\n">> \o question

\* decideAndAskNextQuestion: questionsContext, each template with the data
\* entries collected for its dataKey (<<>> stands for undefined)
QuestionsContext(sortedQuestions, data) ==
  [i \in 1..Len(sortedQuestions) |->
     [q |-> sortedQuestions[i],
      collectedData |-> SelectSeq(data, LAMBDA d : d.key = sortedQuestions[i].dataKey)]]

\* DummyImpl.decideNextQuestion: hasData of one question context
HasDataUnlessNone(ctx) ==
  \E i \in 1..Len(ctx.collectedData) :
    ~IsNoneValue(StringValue(ctx.collectedData[i].value))

HasData(ctx) == Len(ctx.collectedData) > 0

\* DummyImpl.decideNextQuestion: index of the question to ask, 0 when none
NextQuestionIndexLast(allQuestions) ==
  LET open == {i \in 1..Len(allQuestions) : ~HasData(allQuestions[i])}
  IN  IF open = {} THEN 0 ELSE CHOOSE i \in open : \A j \in open : i >= j

NextQuestionIndex(allQuestions) ==
  LET open == {i \in 1..Len(allQuestions) : ~HasData(allQuestions[i])}
  IN  IF open = {} THEN 0 ELSE CHOOSE i \in open : \A j \in open : i <= j

\* DummyImpl.decideNextQuestion: index of previousQuestion, the last question
\* of the list that has data, 0 when none
PreviousQuestionIndex(allQuestions) ==
  LET done == {i \in 1..Len(allQuestions) : HasData(allQuestions[i])}
  IN  IF done = {} THEN 0 ELSE CHOOSE i \in done : \A j \in done : i >= j

DecideNextQuestionAsksAgain(allQuestions) ==
  LET last == Len(allQuestions)
  IN  [questionId |-> IF last > 0 THEN allQuestions[last].q.id ELSE NoQuestion,
       message    |-> <<"Thank you! Survey completed.">>,
       completed  |-> NextQuestionIndex(allQuestions) = 0]

\* DummyImpl.decideNextQuestion
DecideNextQuestion(allQuestions) ==
  LET n    == NextQuestionIndex(allQuestions)
      p    == PreviousQuestionIndex(allQuestions)
      last == Len(allQuestions)
  IN  IF n = 0
        THEN [questionId |-> NoQuestion,
              message    |-> IF last > 0 /\ allQuestions[last].q.final
                               THEN allQuestions[last].q.successTemplate
                               ELSE <<"Thank you! Survey completed.">>,
              completed  |-> TRUE]
        ELSE [questionId |-> allQuestions[n].q.id,
              message    |-> IF p > 0 /\ allQuestions[p].q.successTemplate # <<>>
                               THEN allQuestions[p].q.successTemplate \o <<"\n\n">>
                                      \o allQuestions[n].q.questionTemplate
                               ELSE allQuestions[n].q.questionTemplate,
              completed  |-> FALSE]

\* Array.prototype.sort((a, b) => a.order - b.order), by insertion
RECURSIVE SortByOrder(_)
SortByOrder(qs) ==
  IF qs = <<>> THEN <<>>
  ELSE LET rest == SortByOrder(Tail(qs))
           h    == Head(qs)
           k    == Cardinality({i \in 1..Len(rest) : rest[i].order < h.order})
       IN  SubSeq(rest, 1, k) \o <<h>> \o SubSeq(rest, k + 1, Len(rest))

----------------------------------------------------------------------------
(* YandexImpl: extractData over the language model's output text.  The      *)
(* output text is a sequence of tokens: a markdown fence, a backslash, an    *)
(* opening or closing brace, other text, or a "key": value member (the       *)
(* separating commas are not modelled).                                      *)

OutputToken(c) == [c |-> c, key |-> "", value |-> NullValue]

OutputMember(key, value) == [c |-> "member", key |-> key, value |-> value]

\* response.output_text the model never gave / a rejected request
NoOutput == [outputText |-> <<>>, threw |-> FALSE]

\* a client text (one token) as the string it is
TextString(text) == IF text = <<>> THEN "" ELSE text[1]

\* normalizeJsonString: drops fences and backslashes, then cuts from the
\* first "{" to the "}" that closes it; <<>> is null
NormalizeJsonString(input) ==
  LET normalized == SelectSeq(input, LAMBDA t : t.c \notin {"fence", "backslash"})
      Count(c, from, to) ==
        Cardinality({k \in from..to : normalized[k].c = c})
      opens  == {i \in 1..Len(normalized) : normalized[i].c = "{"}
      firstBrace == CHOOSE i \in opens : \A k \in opens : i <= k
      closes == {j \in firstBrace..Len(normalized) :
                   /\ normalized[j].c = "}"
                   /\ Count("{", firstBrace, j) = Count("}", firstBrace, j)}
      endBrace == CHOOSE j \in closes : \A k \in closes : j <= k
  IN  IF opens = {} THEN <<>>
      ELSE IF closes = {} THEN <<>>
      ELSE SubSeq(normalized, firstBrace, endBrace)

\* obj[key]; a missing property (undefined) compares as null does
GetProperty(obj, key) ==
  LET hits == SelectSeq(obj, LAMBDA e : e.key = key)
  IN  IF hits = <<>> THEN NullValue ELSE hits[1].value

\* obj[key] = value: an existing property keeps its place in Object.entries
SetProperty(obj, key, value) ==
  IF \E i \in 1..Len(obj) : obj[i].key = key
    THEN [i \in 1..Len(obj) |->
            IF obj[i].key = key THEN [key |-> key, value |-> value] ELSE obj[i]]
    ELSE Append(obj, [key |-> key, value |-> value])

\* JSON.parse of "{" members "}": the object, a repeated key keeping its
\* last value
RECURSIVE ObjectOfMembers(_, _, _)
ObjectOfMembers(members, i, acc) ==
  IF i > Len(members) THEN acc
  ELSE ObjectOfMembers(members, i + 1,
                       SetProperty(acc, members[i].key, members[i].value))

\* JSON.parse: throws (ok = FALSE) unless the text is one object whose
\* content is members only
JsonParse(json) ==
  LET inner == SubSeq(json, 2, Len(json) - 1)
      ok == /\ Len(json) >= 2
            /\ json[1].c = "{"
            /\ json[Len(json)].c = "}"
            /\ \A i \in 1..Len(inner) : inner[i].c = "member"
  IN  [ok |-> ok, value |-> IF ok THEN ObjectOfMembers(inner, 1, <<>>) ELSE <<>>]

\* extractData, isNoneValue helper; "net" stands for the Cyrillic word
YandexIsNoneValue(v) ==
  /\ v.t = "string"
  /\ \/ ToLowerCase(v.s) \in {"none", "no", "net"}
     \/ IncludesNoProblems(ToLowerCase(v.s))

HasKeyDataAlways(v) == TRUE

\* extractData, hasCurrentKeyData / hasAnyKeyData: the test of one key's value
HasKeyData(v) ==
  /\ v # NullValue \/ YandexIsNoneValue(v)
  /\ ~(v.t = "object" /\ v # NullValue /\ v.n = 0)

\* extractedData[key] == null || extractedData[key] === ""
IsNullOrEmptyString(v) == v = NullValue \/ v = StringValue("")

\* keyLower.includes("today") || includes("plan") || ..., over the keys of the model
KeyIncludesTodayPlan(key) == key \in {"todayPlan"}

\* keyLower.includes("yesterday") || ... || includes("work")
KeyIncludesYesterdayWork(key) == key \in {"yesterdayWork"}

\* key.toLowerCase().includes("roadblock") || includes("obstacle") || ...
KeyIncludesRoadblock(key) == key \in {"roadblocks"}

\* the first match of the first todayPatterns expression that matches, trimmed
TodayPatternMatch(text) ==
  IF text = "Yesterday I worked on KCD-12. Today I plan KCD-14"
    THEN "Today I plan KCD-14" ELSE ""

\* the first match of the first yesterdayPatterns expression that matches
YesterdayPatternMatch(text) ==
  IF text = "Yesterday I worked on KCD-12. Today I plan KCD-14"
    THEN "Yesterday I worked on KCD-12" ELSE ""

\* noProblemsIndicators.some(indicator => textLower.includes(indicator))
HasNoProblemsIndicator(textLower) == textLower \in {"no problems at all"}

\* the freeform post-processing loop over allDataKeys from index i
RECURSIVE FallbackPatternMatching(_, _, _, _, _)
FallbackPatternMatching(extractedData, allDataKeys, i, currentKey, text) ==
  IF i > Len(allDataKeys) THEN extractedData
  ELSE
    LET key       == allDataKeys[i]
        today     == IF KeyIncludesTodayPlan(key) THEN TodayPatternMatch(text) ELSE ""
        yesterday == IF KeyIncludesYesterdayWork(key)
                       THEN YesterdayPatternMatch(text) ELSE ""
        match     == IF yesterday # "" THEN yesterday ELSE today
        next      == IF /\ key # currentKey
                        /\ IsNullOrEmptyString(GetProperty(extractedData, key))
                        /\ match # ""
                       THEN SetProperty(extractedData, key, StringValue(match))
                       ELSE extractedData
    IN  FallbackPatternMatching(next, allDataKeys, i + 1, currentKey, text)

\* the "no problems" post-processing loop over allDataKeys from index i
RECURSIVE ConvertNoProblems(_, _, _, _, _)
ConvertNoProblems(extractedData, allDataKeys, i, text, lang) ==
  IF i > Len(allDataKeys) THEN extractedData
  ELSE
    LET key  == allDataKeys[i]
        next == IF /\ KeyIncludesRoadblock(key)
                   /\ IsNullOrEmptyString(GetProperty(extractedData, key))
                   /\ HasNoProblemsIndicator(ToLowerCase(text))
                  THEN SetProperty(extractedData, key,
                         StringValue(IF lang = "ru" THEN "net" ELSE "none"))
                  ELSE extractedData
    IN  ConvertNoProblems(next, allDataKeys, i + 1, text, lang)

\* extractData: isNull when it returns null, else data is Object.entries of
\* the object it returns
YandexExtractData(text, currentKey, currentType, allDataKeys, lang, reply) ==
  LET null           == [isNull |-> TRUE, data |-> <<>>]
      normalizedJson == NormalizeJsonString(reply.outputText)
      parsed         == JsonParse(normalizedJson)
      extractedData  == parsed.value
      hasCurrentKeyData ==
        HasKeyData(GetProperty(extractedData, currentKey))
      hasAnyKeyData ==
        \E i \in 1..Len(allDataKeys) :
          HasKeyData(GetProperty(extractedData, allDataKeys[i]))
      withText ==
        IF IsNullOrEmptyString(GetProperty(extractedData, currentKey))
          THEN SetProperty(extractedData, currentKey, StringValue(text))
          ELSE extractedData
      freeform ==
        IF currentType = "freeform"
          THEN FallbackPatternMatching(withText, allDataKeys, 1,
                                       currentKey, text)
          ELSE extractedData
  IN  IF reply.threw THEN null
      ELSE IF reply.outputText = <<>> THEN null
      ELSE IF normalizedJson = <<>> THEN null
      ELSE IF ~parsed.ok THEN null
      ELSE IF extractedData = <<>> THEN null
      ELSE IF ~hasCurrentKeyData /\ ~hasAnyKeyData THEN null
      ELSE [isNull |-> FALSE,
            data   |-> ConvertNoProblems(freeform, allDataKeys, 1, text, lang)]

----------------------------------------------------------------------------
(* Session state operations on the parsed SessionState document *)

\* startSession: { currentOrder: 1, completed: false }
InitialSessionState == [currentOrder |-> 1, completed |-> FALSE]

\* endSession: sessionState.completed = true
EndSessionStateNoop(st) == st

EndSessionState(st) == [st EXCEPT !.completed = TRUE]

\* updateSessionOrder: sessionState.currentOrder = newOrder
UpdateSessionOrderStateFresh(st, newOrder) ==
  [currentOrder |-> newOrder, completed |-> FALSE]

UpdateSessionOrderState(st, newOrder) == [st EXCEPT !.currentOrder = newOrder]

AddAgentQuestionUnshift(rep, id, questionId, questionText) ==
  [rep EXCEPT !.conversation =
     <<[id |-> GenerateId(id), author |-> "agent",
        text |-> questionText, questionId |-> questionId]>> \o @]

AddAgentQuestionDropsData(rep, id, questionId, questionText) ==
  [conversation |-> Append(rep.conversation,
                           [id |-> GenerateId(id), author |-> "agent",
                            text |-> questionText, questionId |-> questionId]),
   data         |-> <<>>,
   flat         |-> rep.flat]

\* addAgentQuestionToConversation: the report document after the push
AddAgentQuestion(rep, id, questionId, questionText) ==
  [rep EXCEPT !.conversation =
     Append(@, [id |-> GenerateId(id), author |-> "agent",
                text |-> questionText, questionId |-> questionId])]

\* SessionMessagesRepository.getLastMessageBySessionId and the order of the
\* message created next; first is the order given to a first message
NextMessageOrder(msgs, first) ==
  IF msgs = <<>> THEN first
  ELSE LET top == CHOOSE i \in 1..Len(msgs) : \A j \in 1..Len(msgs) : msgs[i].order >= msgs[j].order
       IN  msgs[top].order + 1

----------------------------------------------------------------------------
(* State *)

VARIABLES
  questions,      \* the survey's question templates, as findBySurveyId returns them
  sessionExists,  \* whether the session row exists
  sessionState,   \* survey_sessions.sessionState, parsed
  report,         \* session_reports.data, parsed
  messages,       \* session_messages rows of the session, in insertion order
  nextId,         \* source of generateId()
  lastCall,       \* the operation executed last and its inputs
  response,       \* what that operation returned or replied
  inflight,       \* per request: an addClientMessage between its read and its write
  preTurn,        \* the persisted report when the current turn began
  collaborator,   \* what the language model gives YandexImpl's extractData
  runnable        \* a ServiceBase or BaseFastifyPlugin object and its pending calls

vars == <<questions, sessionExists, sessionState, report, messages, nextId,
          lastCall, response, inflight, preTurn, collaborator, runnable>>

\* the requests that may be in progress at once
Requests == {1, 2}

\* no addClientMessage in progress
Idle == [pc |-> "idle", text |-> <<>>, current |-> InitialReportData]

\* what only interleaved requests and failing turns use
aux == <<inflight, preTurn, collaborator, runnable>>

\* new ServiceBase(...) / new BaseFastifyPlugin(...) has returned: the
\* constructor called the initialization, which set runState and now awaits
\* its first step
Constructed(kind) ==
  [kind |-> kind, runState |-> "initializing", ready |-> "pending",
   init |-> IF kind = "ServiceBase" THEN "initialize" ELSE "initializePre",
   start |-> "idle", stop |-> "idle",
   started |-> "none", stopped |-> "none"]

\* the dataKeys of the survey
SurveyKeys == {KeyNames[i] : i \in Orders}

\* extraction results over given keys and values: Object.entries order,
\* keys distinct
MapsOver(keys, values) ==
  UNION { { m \in [1..n -> [key : keys, value : values]] :
              \A i, j \in 1..n : i # j => m[i].key # m[j].key }
          : n \in 0..MaxExtracted }

\* every extraction result of the model, foreign keys and dropped values included
ExtractionMaps == MapsOver(SurveyKeys \cup {ForeignKey}, ExtractedValues)

\* the extraction results explored together with every other operation
TurnMaps == MapsOver(SurveyKeys, {StringValue("KCD-13")})

\* the client texts explored together with every other operation
TurnTexts == { <<"KCD-12">> }

NoText == <<>>

Call(op, text, ext, extNull, order) ==
  [op |-> op, text |-> text, ext |-> ext, extNull |-> extNull, order |-> order]

Reply(status, kind, questionId, message, completed) ==
  [status |-> status, kind |-> kind, questionId |-> questionId,
   message |-> message, completed |-> completed]

Init ==
  /\ \E f \in FinalOrders : questions = FindBySurveyId(f)
  /\ sessionExists = FALSE
  /\ sessionState = [currentOrder |-> 0, completed |-> FALSE]
  /\ report = InitialReportData
  /\ messages = <<>>
  /\ nextId = 1
  /\ lastCall = Call("none", NoText, <<>>, FALSE, 0)
  /\ response = Reply(0, "none", NoQuestion, NoText, FALSE)
  /\ inflight = [r \in Requests |-> Idle]
  /\ preTurn = InitialReportData
  /\ collaborator = NoOutput
  /\ runnable = Constructed("ServiceBase")

----------------------------------------------------------------------------
(* SurveySessionService operations *)

\* startSession: creates the session and its empty report, returns the
\* first question template
StartSession ==
  /\ ~sessionExists
  /\ sessionExists' = TRUE
  /\ sessionState' = InitialSessionState
  /\ report' = InitialReportData
  /\ lastCall' = Call("startSession", NoText, <<>>, FALSE, 0)
  /\ response' = Reply(200, "session",
                       IF questions = <<>> THEN NoQuestion ELSE questions[1].id,
                       NoText, FALSE)
  /\ UNCHANGED <<questions, messages, nextId>>

SessionNotFoundCreates(op, text, ext, extNull, order) ==
  /\ ~sessionExists
  /\ sessionExists' = TRUE
  /\ lastCall' = Call(op, text, ext, extNull, order)
  /\ response' = Reply(500, "error", NoQuestion, <<"Session not found">>, FALSE)
  /\ UNCHANGED <<questions, sessionState, report, messages, nextId>>

\* an operation on a session that does not exist throws
SessionNotFound(op, text, ext, extNull, order) ==
  /\ ~sessionExists
  /\ lastCall' = Call(op, text, ext, extNull, order)
  /\ response' = Reply(500, "error", NoQuestion, <<"Session not found">>, FALSE)
  /\ UNCHANGED <<questions, sessionExists, sessionState, report, messages, nextId>>

\* endSession
EndSession ==
  \/ SessionNotFound("endSession", NoText, <<>>, FALSE, 0)
  \/ /\ sessionExists
     /\ sessionState' = EndSessionState(sessionState)
     /\ lastCall' = Call("endSession", NoText, <<>>, FALSE, 0)
     /\ response' = Reply(200, "void", NoQuestion, NoText, FALSE)
     /\ UNCHANGED <<questions, sessionExists, report, messages, nextId>>

\* updateSessionOrder(sessionId, newOrder)
UpdateSessionOrder(newOrder) ==
  \/ SessionNotFound("updateSessionOrder", NoText, <<>>, FALSE, newOrder)
  \/ /\ sessionExists
     /\ sessionState' = UpdateSessionOrderState(sessionState, newOrder)
     /\ lastCall' = Call("updateSessionOrder", NoText, <<>>, FALSE, newOrder)
     /\ response' = Reply(200, "void", NoQuestion, NoText, FALSE)
     /\ UNCHANGED <<questions, sessionExists, report, messages, nextId>>

\* addClientMessage when extractData returned null: throws before any write
AddClientMessageFailed(text) ==
  /\ sessionExists
  /\ lastCall' = Call("addClientMessage", text, <<>>, TRUE, 0)
  /\ response' = Reply(500, "error", NoQuestion,
                       <<"Failed to extract data from client message">>, FALSE)
  /\ UNCHANGED <<questions, sessionExists, sessionState, report, messages, nextId>>

\* addClientMessage when extractData returned the map ext, from the report
\* document current that its getCurrentReportData call returned
AddClientMessageWrite(current, text, ext) ==
  LET currentKey == CurrentQuestionDataKey(current.conversation, questions)
      partial    == StorePartial(ext, currentKey, <<>>, nextId + 1)
      client     == [id |-> GenerateId(nextId), author |-> "client",
                     text |-> text, questionId |-> NoQuestion]
      fullReport == [conversation |-> Append(current.conversation, client),
                     data         |-> MergeData(current.data, partial.data),
                     flat         |-> <<>>]
  IN  /\ sessionExists
      /\ messages' = Append(messages,
           [order |-> NextMessageOrder(messages, 1), author |-> "client", text |-> text])
      /\ report' = fullReport
      /\ nextId' = partial.id
      /\ lastCall' = Call("addClientMessage", text, ext, FALSE, 0)
      /\ response' = Reply(200, "merged", NoQuestion, NoText, FALSE)
      /\ UNCHANGED <<questions, sessionExists, sessionState>>

\* addClientMessage run without interruption: the report it merges into is
\* the one persisted when it writes
AddClientMessageStored(text, ext) ==
  AddClientMessageWrite(GetCurrentReportData(report), text, ext)

AddClientMessage(text, maps) ==
  \/ SessionNotFound("addClientMessage", text, <<>>, FALSE, 0)
  \/ AddClientMessageFailed(text)
  \/ \E ext \in maps : AddClientMessageStored(text, ext)

\* decideAndAskNextQuestion
DecideAndAskNextQuestion ==
  \/ SessionNotFound("decideAndAskNextQuestion", NoText, <<>>, FALSE, 0)
  \/ LET sortedQuestions == SortByOrder(questions)
         current  == GetCurrentReportData(report)
         decision == DecideNextQuestion(QuestionsContext(sortedQuestions, current.data))
         asks     == decision.questionId # NoQuestion
     IN  /\ sessionExists
         /\ report' = IF asks
                        THEN AddAgentQuestion(current, nextId, decision.questionId,
                                              decision.message)
                        ELSE report
         /\ messages' = IF asks
                          THEN Append(messages,
                                 [order |-> NextMessageOrder(messages, 0),
                                  author |-> "agent", text |-> decision.message])
                          ELSE messages
         /\ nextId' = IF asks THEN nextId + 1 ELSE nextId
         /\ sessionState' = IF decision.completed
                              THEN EndSessionState(sessionState)
                              ELSE sessionState
         /\ lastCall' = Call("decideAndAskNextQuestion", NoText, <<>>, FALSE, 0)
         /\ response' = Reply(200, "decision", decision.questionId,
                              decision.message, decision.completed)
         /\ UNCHANGED <<questions, sessionExists>>

----------------------------------------------------------------------------
(* Route handlers of the survey plugin *)

\* getQuestionBySurveyIdAndOrder: the first template of that order, if any
GetQuestionByOrder(qs, order) == SelectSeq(qs, LAMBDA q : q.order = order)

\* POST /s/:externalId/init
InitRoute ==
  /\ ~sessionExists
  /\ sessionExists' = TRUE
  /\ sessionState' = InitialSessionState
  /\ lastCall' = Call("init", NoText, <<>>, FALSE, 0)
  /\ IF questions = <<>>
       THEN /\ report' = InitialReportData
            /\ nextId' = nextId
            /\ response' = Reply(200, "noQuestions", NoQuestion,
                                 <<"No questions available">>, FALSE)
       ELSE LET reformulatedQuestion == RephraseQuestion(questions[1].questionTemplate)
            IN  /\ report' = AddAgentQuestion(InitialReportData, nextId,
                                              questions[1].id, reformulatedQuestion)
                /\ nextId' = nextId + 1
                /\ response' = Reply(200, "question", questions[1].id,
                                     reformulatedQuestion, FALSE)
  /\ UNCHANGED <<questions, messages>>

\* /respond: hasData of a candidate question in the flattened data state;
\* stored values are strings, never null and never an empty object
RespondHasData(flat, dataKey) == dataKey \in DOMAIN flat

\* /respond: the search for the next question without data, from order on;
\* returns the order reached and the question found (<<>> when none)
RespondNextQuestionFromFirst(qs, flat, order, maxOrder) ==
  LET open == {o \in 1..maxOrder :
                 /\ GetQuestionByOrder(qs, o) # <<>>
                 /\ ~RespondHasData(flat, GetQuestionByOrder(qs, o)[1].dataKey)}
  IN  IF open = {} THEN [order |-> maxOrder + 1, question |-> <<>>]
      ELSE LET o == CHOOSE o \in open : \A u \in open : o <= u
           IN  [order |-> o, question |-> <<GetQuestionByOrder(qs, o)[1]>>]

RECURSIVE RespondNextQuestion(_, _, _, _)
RespondNextQuestion(qs, flat, order, maxOrder) ==
  IF order > maxOrder THEN [order |-> order, question |-> <<>>]
  ELSE LET candidate == GetQuestionByOrder(qs, order)
       IN  IF candidate = <<>> THEN [order |-> order, question |-> <<>>]
           ELSE IF ~RespondHasData(flat, candidate[1].dataKey)
                  THEN [order |-> order, question |-> <<candidate[1]>>]
                  ELSE RespondNextQuestion(qs, flat, order + 1, maxOrder)

\* /respond: allDataKeysProvided
AllDataKeysProvided(qs, data) ==
  \A i \in 1..Len(qs) : \E j \in 1..Len(data) : data[j].key = qs[i].dataKey

\* Array.prototype.join(", ") of the keys, as tokens
RECURSIVE JoinKeys(_)
JoinKeys(keys) ==
  IF keys = <<>> THEN <<>>
  ELSE IF Len(keys) = 1 THEN <<keys[1]>>
  ELSE <<keys[1], ", ">> \o JoinKeys(Tail(keys))

\* /respond: the message that issues nextQuestion after question was answered
RespondQuestionMessage(qs, flat, question, nextQuestion, currentOrder, nextOrder) ==
  LET between == SelectSeq(qs, LAMBDA q : q.order > currentOrder /\ q.order < nextOrder
                                          /\ q.dataKey \in DOMAIN flat)
      skippedDataKeys == [i \in 1..Len(between) |-> between[i].dataKey]
  IN  IF nextOrder - (currentOrder + 1) > 0 /\ skippedDataKeys # <<>>
        THEN RephraseQuestion(
               question.successTemplate
                 \o <<"\n\nThe user has already provided information for: ">>
                 \o JoinKeys(skippedDataKeys)
                 \o <<". Acknowledge this briefly and naturally, then ask the next question: ">>
                 \o nextQuestion.questionTemplate)
        ELSE CombineSuccessWithQuestion(question.successTemplate,
                                        nextQuestion.questionTemplate)

\* the largest order of the survey (Math.max of no numbers is -Infinity)
MaxOrder(qs) ==
  IF qs = <<>> THEN -1
  ELSE LET i == CHOOSE i \in 1..Len(qs) : \A j \in 1..Len(qs) : qs[i].order >= qs[j].order
       IN  qs[i].order

\* POST /s/:externalId/respond with body { sessionId, answerText }; extNull
\* tells whether extractData returned null (the map itself is not used:
\* addQuestionAnswer stores nothing)
Respond(text, extNull) ==
  LET currentOrder == sessionState.currentOrder
      found        == GetQuestionByOrder(questions, currentOrder)
      question     == found[1]
      current      == GetCurrentReportData(report)
      flat         == current.flat[1]
      next         == RespondNextQuestion(questions, flat, currentOrder + 1,
                                          MaxOrder(questions))
      finals       == SelectSeq(questions, LAMBDA q : q.final)
      call         == Call("respond", text, <<>>, extNull, 0)
      same         == UNCHANGED <<questions, sessionExists, sessionState, report,
                                  messages, nextId>>
  IN  /\ lastCall' = call
      /\ IF ~sessionExists
           THEN /\ response' = Reply(404, "error", NoQuestion, <<"Session not found">>, FALSE)
                /\ same
         ELSE IF found = <<>>
           THEN /\ response' = Reply(404, "error", NoQuestion, <<"Question not found">>, FALSE)
                /\ same
         ELSE IF extNull
           THEN /\ response' = Reply(200, "fail", question.id,
                     CombineFailWithQuestion(question.failTemplate,
                                             question.questionTemplate), FALSE)
                /\ same
         ELSE IF question.final
           THEN /\ sessionState' = EndSessionState(sessionState)
                /\ response' = Reply(200, "completed", NoQuestion,
                                     RephraseCompletion(question.successTemplate), TRUE)
                /\ UNCHANGED <<questions, sessionExists, report, messages, nextId>>
         ELSE IF AllDataKeysProvided(questions, current.data) \/ next.question = <<>>
           THEN /\ sessionState' = EndSessionState(sessionState)
                /\ response' = Reply(200, "completed", NoQuestion,
                     IF finals # <<>>
                       THEN RephraseCompletion(finals[1].successTemplate)
                       ELSE <<"Thank you for completing the survey!">>, TRUE)
                /\ UNCHANGED <<questions, sessionExists, report, messages, nextId>>
         ELSE LET nextQuestion == next.question[1]
                  finalMessage == RespondQuestionMessage(questions, flat, question,
                                    nextQuestion, currentOrder, next.order)
              IN  /\ sessionState' = UpdateSessionOrderState(sessionState, next.order)
                  /\ report' = AddAgentQuestion(report, nextId, nextQuestion.id,
                                                finalMessage)
                  /\ nextId' = nextId + 1
                  \* answer is undefined (addQuestionAnswer returns nothing), so
                  \* reading answer.id throws after the writes: the reply is 500
                  /\ response' = Reply(500, "asked", nextQuestion.id, finalMessage, FALSE)
                  /\ UNCHANGED <<questions, sessionExists, messages>>

----------------------------------------------------------------------------
(* Specification *)

\* the reports explored: a step is followed only while the report it writes
\* stays within the given lengths
Bounded(maxConversation, maxData) ==
  /\ Len(report'.conversation) <= maxConversation
  /\ Len(report'.data) <= maxData

Next ==
  \/ StartSession /\ UNCHANGED aux
  \/ InitRoute /\ UNCHANGED aux
  \/ EndSession /\ UNCHANGED aux
  \/ /\ \E newOrder \in {1, NumQuestions} : UpdateSessionOrder(newOrder)
     /\ UNCHANGED aux
  \/ /\ \E text \in TurnTexts : AddClientMessage(text, TurnMaps)
     /\ Bounded(MaxConversation, MaxData)
     /\ UNCHANGED aux
  \/ /\ DecideAndAskNextQuestion
     /\ Bounded(MaxConversation, MaxData)
     /\ UNCHANGED aux
  \/ /\ \E text \in TurnTexts, extNull \in BOOLEAN : Respond(text, extNull)
     /\ Bounded(MaxConversation, MaxData)
     /\ UNCHANGED aux

Spec == Init /\ [][Next]_vars

\* the merge explored with every extraction result: sessions driven by
\* /init or startSession, addClientMessage and decideAndAskNextQuestion
NextMerge ==
  \/ StartSession /\ UNCHANGED aux
  \/ InitRoute /\ UNCHANGED aux
  \/ /\ Len(SelectSeq(report.conversation, LAMBDA m : m.author = "client")) < MaxMerges
     /\ \E text \in TurnTexts : AddClientMessage(text, ExtractionMaps)
     /\ Bounded(MaxConversation, MaxData)
     /\ UNCHANGED aux
  \/ /\ DecideAndAskNextQuestion
     /\ Bounded(MaxConversation, MaxData)
     /\ UNCHANGED aux

\* the merge does not read the final flag: one survey, its last question final
InitMerge == Init /\ questions = FindBySurveyId(NumQuestions)

SpecMerge == InitMerge /\ [][NextMerge]_vars

\* the values a reply gives for the question being asked
RunValues == { StringValue("KCD-13"), StringValue("None"), ObjectValue(1) }

RunTexts == { <<"KCD-12">>, <<"No, thanks">> }

\* the extraction results with a value for the key of the question being
\* asked and for nothing else
RunMaps ==
  { <<[key |-> CurrentQuestionDataKey(report.conversation, questions), value |-> v]>>
      : v \in RunValues }

\* the last conversation entry was written by author
LastAuthorIs(author) ==
  /\ report.conversation # <<>>
  /\ report.conversation[Len(report.conversation)].author = author

\* the one-at-a-time run: the session is started by startSession or /init,
\* then every turn is addClientMessage on the reply to the question asked
\* last, followed by decideAndAskNextQuestion
NextRun ==
  \/ StartSession /\ UNCHANGED aux
  \/ InitRoute /\ UNCHANGED aux
  \/ /\ ~sessionExists \/ LastAuthorIs("agent")
     /\ \E text \in RunTexts : AddClientMessage(text, RunMaps)
     /\ Bounded(2 * NumQuestions, NumQuestions)
     /\ UNCHANGED aux
  \/ /\ ~sessionExists \/ ~LastAuthorIs("agent")
     /\ DecideAndAskNextQuestion
     /\ Bounded(2 * NumQuestions, NumQuestions)
     /\ UNCHANGED aux

SpecRun == InitMerge /\ [][NextRun]_vars

GetCurrentReportDataCallPersists ==
  /\ lastCall' = Call("getCurrentReportData", NoText, <<>>, FALSE, 0)
  /\ response' = IF sessionExists
                   THEN Reply(200, "reportData", NoQuestion, NoText, FALSE)
                          @@ [reportData |-> GetCurrentReportData(report)]
                   ELSE Reply(200, "null", NoQuestion, NoText, FALSE)
  /\ report' = IF sessionExists THEN GetCurrentReportData(report) ELSE report
  /\ UNCHANGED <<questions, sessionExists, sessionState, messages, nextId>>

\* getCurrentReportData(sessionId) as an operation: null without a report,
\* else the report document together with its _flatData
GetCurrentReportDataCall ==
  /\ lastCall' = Call("getCurrentReportData", NoText, <<>>, FALSE, 0)
  /\ response' = IF sessionExists
                   THEN Reply(200, "reportData", NoQuestion, NoText, FALSE)
                          @@ [reportData |-> GetCurrentReportData(report)]
                   ELSE Reply(200, "null", NoQuestion, NoText, FALSE)
  /\ UNCHANGED <<questions, sessionExists, sessionState, report, messages, nextId>>

\* the data entries a report may hold for the first two questions' keys
FlatEntries ==
  [key : {KeyNames[1], KeyNames[2]}, value : {"KCD-12", "KCD-13"},
   type : {"freeform", "extracted"}]

\* data arrays of a report, ids by position: of either type in any order,
\* with at most one freeform entry per key
FlatDataArrays ==
  UNION { { [i \in 1..n |-> [id |-> GenerateId(i), key |-> d[i].key,
                              value |-> d[i].value, type |-> d[i].type]]
              : d \in { e \in [1..n -> FlatEntries] :
                          \A i, j \in 1..n :
                            (i # j /\ e[i].key = e[j].key /\ e[i].type = "freeform")
                              => e[j].type # "freeform" } }
          : n \in 0..MaxData }

\* getCurrentReportData on every such report, and on a session without one
InitFlat ==
  /\ questions = FindBySurveyId(NumQuestions)
  /\ sessionExists \in BOOLEAN
  /\ sessionState = InitialSessionState
  /\ \E data \in FlatDataArrays :
       /\ sessionExists \/ data = <<>>
       /\ report = [conversation |-> <<>>, data |-> data, flat |-> <<>>]
  /\ messages = <<>>
  /\ nextId = MaxData + 1
  /\ lastCall = Call("none", NoText, <<>>, FALSE, 0)
  /\ response = Reply(0, "none", NoQuestion, NoText, FALSE)
  /\ inflight = [r \in Requests |-> Idle]
  /\ preTurn = InitialReportData
  /\ collaborator = NoOutput
  /\ runnable = Constructed("ServiceBase")

NextFlat == GetCurrentReportDataCall /\ UNCHANGED aux

SpecFlat == InitFlat /\ [][NextFlat]_vars

\* the conversations of the reports read: none, or the first question and
\* a reply to it
FlatConversations ==
  { <<>>,
    <<[id |-> GenerateId(MaxData + 1), author |-> "agent",
       text |-> QuestionTemplate(1, NumQuestions).questionTemplate,
       questionId |-> QuestionIdOfOrder(1)],
      [id |-> GenerateId(MaxData + 2), author |-> "client",
       text |-> <<"KCD-12">>, questionId |-> NoQuestion]>> }

\* getCurrentReportData on reports with the same data arrays and either
\* conversation
InitView ==
  /\ questions = FindBySurveyId(NumQuestions)
  /\ sessionExists \in BOOLEAN
  /\ sessionState = InitialSessionState
  /\ \E data \in FlatDataArrays, conversation \in FlatConversations :
       /\ sessionExists \/ (data = <<>> /\ conversation = <<>>)
       /\ report = [conversation |-> conversation, data |-> data, flat |-> <<>>]
  /\ messages = <<>>
  /\ nextId = MaxData + 3
  /\ lastCall = Call("none", NoText, <<>>, FALSE, 0)
  /\ response = Reply(0, "none", NoQuestion, NoText, FALSE)
  /\ inflight = [r \in Requests |-> Idle]
  /\ preTurn = InitialReportData
  /\ collaborator = NoOutput
  /\ runnable = Constructed("ServiceBase")

SpecView == InitView /\ [][NextFlat]_vars

----------------------------------------------------------------------------
(* Two addClientMessage calls of one session in progress at once: the awaits *)
(* between getCurrentReportData and updateBySessionId let them interleave    *)

\* addClientMessage up to its getCurrentReportData call: request r has read
\* the report and awaits the extraction
AddClientMessageRead(r, text) ==
  /\ sessionExists
  /\ inflight[r].pc = "idle"
  /\ inflight' = [inflight EXCEPT ![r] = [pc |-> "read", text |-> text,
                                          current |-> GetCurrentReportData(report)]]
  /\ UNCHANGED <<questions, sessionExists, sessionState, report, messages, nextId,
                 lastCall, response, preTurn, collaborator, runnable>>

\* the report document the rest of request r's addClientMessage merges into
ReportReadAtWrite(r) == GetCurrentReportData(report)

ReportReadBy(r) == inflight[r].current

\* the rest of request r's addClientMessage, extractData having returned ext
AddClientMessageResume(r, ext) ==
  /\ inflight[r].pc = "read"
  /\ AddClientMessageWrite(ReportReadBy(r), inflight[r].text, ext)
  /\ inflight' = [inflight EXCEPT ![r] = Idle]
  /\ UNCHANGED <<preTurn, collaborator, runnable>>

\* the rest of request r's addClientMessage, extractData having returned null
AddClientMessageResumeFailed(r) ==
  /\ inflight[r].pc = "read"
  /\ AddClientMessageFailed(inflight[r].text)
  /\ inflight' = [inflight EXCEPT ![r] = Idle]
  /\ UNCHANGED <<preTurn, collaborator, runnable>>

\* each request sends its own text; a write that loses another's update
\* shortens the report, so the session's message rows bound the run
RequestText(r) == IF r = 1 THEN <<"KCD-12">> ELSE <<"No, thanks">>

\* the extraction results of the interleaved requests
RaceMaps == MapsOver({KeyNames[1], KeyNames[2]}, {StringValue("KCD-13")})

NextRace ==
  \/ StartSession /\ UNCHANGED aux
  \/ InitRoute /\ UNCHANGED aux
  \/ \E r \in Requests : AddClientMessageRead(r, RequestText(r))
  \/ /\ \E r \in Requests, ext \in RaceMaps : AddClientMessageResume(r, ext)
     /\ Bounded(MaxConversation, MaxData)
     /\ Len(messages') <= MaxConversation
  \/ \E r \in Requests : AddClientMessageResumeFailed(r)
  \/ /\ DecideAndAskNextQuestion
     /\ Bounded(MaxConversation, MaxData)
     /\ Len(messages') <= MaxConversation
     /\ UNCHANGED aux

SpecRace == InitMerge /\ [][NextRace]_vars

----------------------------------------------------------------------------
(* Turns in which an awaited call throws *)

\* the awaited calls after which addClientMessage and
\* decideAndAskNextQuestion have persisted something or are about to
ClientFailures == {"create", "updateBySessionId"}
DecideFailures == {"decideNextQuestion", "updateBySessionId", "create", "endSession"}

\* addClientMessage, extractData having returned ext, when the awaited call
\* at throws: sessionMessagesRepository.create (nothing is persisted yet) or
\* sessionReportsRepository.updateBySessionId (the message row is)
\* (the ids generated for the entries that were not persisted are dropped)
AddClientMessageThrows(text, ext, at) ==
  /\ sessionExists
  /\ messages' = IF at = "updateBySessionId"
                   THEN Append(messages,
                          [order |-> NextMessageOrder(messages, 1),
                           author |-> "client", text |-> text])
                   ELSE messages
  /\ lastCall' = Call("addClientMessage", text, ext, FALSE, 0)
  /\ response' = Reply(500, "error", NoQuestion, <<at>>, FALSE)
  /\ UNCHANGED <<questions, sessionExists, sessionState, report, nextId>>

\* decideAndAskNextQuestion when the awaited call at throws:
\* aiService.decideNextQuestion, the report update, the insert of the agent
\* message row that follows it, or endSession
DecideAndAskNextQuestionThrows(at) ==
  LET sortedQuestions == SortByOrder(questions)
      current  == GetCurrentReportData(report)
      decision == DecideNextQuestion(QuestionsContext(sortedQuestions, current.data))
      asks     == decision.questionId # NoQuestion
  IN  /\ sessionExists
      /\ at \in {"updateBySessionId", "create"} => asks
      /\ at = "endSession" => decision.completed
      /\ report' = IF at = "create"
                     THEN AddAgentQuestion(current, nextId, decision.questionId,
                                           decision.message)
                     ELSE report
      /\ nextId' = IF at = "create" THEN nextId + 1 ELSE nextId
      /\ lastCall' = Call("decideAndAskNextQuestion", NoText, <<>>, FALSE, 0)
      /\ response' = Reply(500, "error", NoQuestion, <<at>>, FALSE)
      /\ UNCHANGED <<questions, sessionExists, sessionState, messages>>

\* a turn is addClientMessage followed by decideAndAskNextQuestion: the
\* decision belongs to the turn of the addClientMessage that returned just
\* before it, else it is a turn of its own
TurnContinues ==
  /\ preTurn' = IF lastCall.op = "addClientMessage" /\ response.status = 200
                  THEN preTurn ELSE report
  /\ UNCHANGED <<inflight, collaborator, runnable>>

TurnBegins ==
  /\ preTurn' = report
  /\ UNCHANGED <<inflight, collaborator, runnable>>

NextFail ==
  \/ StartSession /\ preTurn' = report' /\ UNCHANGED <<inflight, collaborator, runnable>>
  \/ InitRoute /\ preTurn' = report' /\ UNCHANGED <<inflight, collaborator, runnable>>
  \/ /\ Len(SelectSeq(report.conversation, LAMBDA m : m.author = "client")) < MaxMerges
     /\ \E text \in TurnTexts : AddClientMessage(text, RaceMaps)
     /\ Bounded(MaxConversation, MaxData)
     /\ TurnBegins
  \/ /\ Len(messages) < MaxConversation
     /\ \E text \in TurnTexts, ext \in RaceMaps, at \in ClientFailures :
          AddClientMessageThrows(text, ext, at)
     /\ TurnBegins
  \/ /\ DecideAndAskNextQuestion
     /\ Bounded(MaxConversation, MaxData)
     /\ TurnContinues
  \/ /\ \E at \in DecideFailures : DecideAndAskNextQuestionThrows(at)
     /\ Bounded(MaxConversation, MaxData)
     /\ TurnContinues

SpecFail == InitMerge /\ [][NextFail]_vars

----------------------------------------------------------------------------
(* Sessions whose replies are none-equivalent answers *)

\* "none", "no", the Cyrillic word ("net") and a text that includes
\* "no problems", in other letter cases
NoneValues ==
  { StringValue("None"), StringValue("NO"), StringValue("NET"),
    StringValue("No Problems at all") }

NoneMaps == MapsOver(SurveyKeys, NoneValues)

NextNone ==
  \/ StartSession /\ UNCHANGED aux
  \/ InitRoute /\ UNCHANGED aux
  \/ /\ Len(SelectSeq(report.conversation, LAMBDA m : m.author = "client")) < MaxMerges
     /\ \E text \in TurnTexts : AddClientMessage(text, NoneMaps)
     /\ Bounded(MaxConversation, MaxData)
     /\ UNCHANGED aux
  \/ /\ DecideAndAskNextQuestion
     /\ Bounded(MaxConversation, MaxData)
     /\ UNCHANGED aux
  \/ /\ \E text \in TurnTexts, extNull \in BOOLEAN : Respond(text, extNull)
     /\ Bounded(MaxConversation, MaxData)
     /\ UNCHANGED aux

SpecNone == InitMerge /\ [][NextNone]_vars

----------------------------------------------------------------------------
(* Sessions whose extraction is YandexImpl's, over every output text of the  *)
(* language model up to a length                                             *)

\* largest number of tokens of an output text
MaxOutput == 3

OutputTokens ==
  { OutputToken("fence"), OutputToken("backslash"), OutputToken("{"),
    OutputToken("}"), OutputToken("text"),
    OutputMember(KeyNames[1], StringValue("KCD-13")),
    OutputMember(KeyNames[2], NullValue),
    OutputMember(ForeignKey, StringValue("KCD-13")) }

\* what client.responses.create gives: it rejects, or resolves with an
\* output text (an empty one included)
ModelReplies ==
  {[outputText |-> <<>>, threw |-> TRUE]}
    \cup { [outputText |-> o, threw |-> FALSE] :
             o \in UNION { [1..n -> OutputTokens] : n \in 0..MaxOutput } }

YandexTexts ==
  { <<"KCD-12">>, <<"No Problems at all">>,
    <<"Yesterday I worked on KCD-12. Today I plan KCD-14">> }

\* survey.lang
SurveyLang == "en"

\* allQuestionTemplates.map((qt) => qt.dataKey)
AllDataKeys(allQuestionTemplates) ==
  [i \in 1..Len(allQuestionTemplates) |-> allQuestionTemplates[i].dataKey]

\* (key && allQuestionTypes[key]) || "freeform"
SafeCurrentQuestionType(allQuestionTemplates, dataKey) ==
  LET hits == SelectSeq(allQuestionTemplates, LAMBDA qt : qt.dataKey = dataKey)
  IN  IF hits = <<>> THEN "freeform" ELSE hits[Len(hits)].type

\* addClientMessage, the collaborator being YandexImpl
YandexAddClientMessage(text) ==
  LET current    == GetCurrentReportData(report)
      currentKey == CurrentQuestionDataKey(current.conversation, questions)
      extracted  == YandexExtractData(TextString(text), currentKey,
                      SafeCurrentQuestionType(questions, currentKey),
                      AllDataKeys(questions), SurveyLang, collaborator)
  IN  IF extracted.isNull
        THEN AddClientMessageFailed(text)
        ELSE AddClientMessageStored(text, extracted.data)

\* /respond, the collaborator being YandexImpl: extractData is called once
\* the session and the question of the current order are found
YandexRespond(text) ==
  LET found     == GetQuestionByOrder(questions, sessionState.currentOrder)
      called    == sessionExists /\ found # <<>>
      extracted == YandexExtractData(TextString(text), found[1].dataKey,
                     found[1].type, AllDataKeys(questions), SurveyLang, collaborator)
  IN  Respond(text, called /\ extracted.isNull)

\* the language model gives the same reply throughout a session
InitYandex ==
  /\ questions = FindBySurveyId(NumQuestions)
  /\ sessionExists = FALSE
  /\ sessionState = [currentOrder |-> 0, completed |-> FALSE]
  /\ report = InitialReportData
  /\ messages = <<>>
  /\ nextId = 1
  /\ lastCall = Call("none", NoText, <<>>, FALSE, 0)
  /\ response = Reply(0, "none", NoQuestion, NoText, FALSE)
  /\ inflight = [r \in Requests |-> Idle]
  /\ preTurn = InitialReportData
  /\ collaborator \in ModelReplies
  /\ runnable = Constructed("ServiceBase")

NextYandex ==
  \/ StartSession /\ UNCHANGED aux
  \/ InitRoute /\ UNCHANGED aux
  \/ /\ \E text \in YandexTexts : YandexAddClientMessage(text)
     /\ Bounded(MaxConversation, MaxData)
     /\ UNCHANGED aux
  \/ /\ DecideAndAskNextQuestion
     /\ Bounded(MaxConversation, MaxData)
     /\ UNCHANGED aux
  \/ /\ \E text \in YandexTexts : YandexRespond(text)
     /\ Bounded(MaxConversation, MaxData)
     /\ UNCHANGED aux

SpecYandex == InitYandex /\ [][NextYandex]_vars

----------------------------------------------------------------------------
(* Sessions of any survey, the one without questions included, with calls   *)
(* that name a survey or a session that does not exist                      *)

Surveys == {<<>>, FindBySurveyId(NumQuestions)}

InitStart ==
  /\ questions \in Surveys
  /\ sessionExists = FALSE
  /\ sessionState = [currentOrder |-> 0, completed |-> FALSE]
  /\ report = InitialReportData
  /\ messages = <<>>
  /\ nextId = 1
  /\ lastCall = Call("none", NoText, <<>>, FALSE, 0)
  /\ response = Reply(0, "none", NoQuestion, NoText, FALSE)
  /\ inflight = [r \in Requests |-> Idle]
  /\ preTurn = InitialReportData
  /\ collaborator = NoOutput
  /\ runnable = Constructed("ServiceBase")

\* a call whose externalId or sessionId no stored record has
UnknownCall(op, text, order) ==
  [known |-> FALSE] @@ Call(op, text, <<>>, FALSE, order)

\* startSession with an externalId that no survey has: findByExternalId
\* returns nothing and startSession throws before any write
StartSessionSurveyNotFound ==
  /\ lastCall' = UnknownCall("startSession", NoText, 0)
  /\ response' = Reply(500, "error", NoQuestion, <<"Survey not found">>, FALSE)
  /\ UNCHANGED <<questions, sessionExists, sessionState, report, messages, nextId>>

\* the operations that look the session up by its id
SessionOperations ==
  {"endSession", "updateSessionOrder", "addClientMessage", "decideAndAskNextQuestion"}

\* one of them with a sessionId that no session has, whether or not another
\* session exists: getById returns nothing and the operation throws
UnknownSessionId(op, text, order) ==
  /\ lastCall' = UnknownCall(op, text, order)
  /\ response' = Reply(500, "error", NoQuestion, <<"Session not found">>, FALSE)
  /\ UNCHANGED <<questions, sessionExists, sessionState, report, messages, nextId>>

NextStart ==
  \/ StartSession /\ UNCHANGED aux
  \/ StartSessionSurveyNotFound /\ UNCHANGED aux
  \/ /\ \E op \in SessionOperations, text \in TurnTexts :
          UnknownSessionId(op,
                           IF op = "addClientMessage" THEN text ELSE NoText,
                           IF op = "updateSessionOrder" THEN NumQuestions ELSE 0)
     /\ UNCHANGED aux
  \/ EndSession /\ UNCHANGED aux
  \/ /\ \E newOrder \in {1, NumQuestions} : UpdateSessionOrder(newOrder)
     /\ UNCHANGED aux
  \/ /\ \E text \in TurnTexts : AddClientMessage(text, TurnMaps)
     /\ Bounded(MaxConversation, MaxData)
     /\ UNCHANGED aux
  \/ /\ DecideAndAskNextQuestion
     /\ Bounded(MaxConversation, MaxData)
     /\ UNCHANGED aux

SpecStart == InitStart /\ [][NextStart]_vars

----------------------------------------------------------------------------
(* Sessions of the service operations alone, long enough for a decision to  *)
(* be repeated after the last question is answered                          *)

NextRepeat ==
  \/ StartSession /\ UNCHANGED aux
  \/ /\ \E text \in TurnTexts : AddClientMessage(text, TurnMaps)
     /\ Bounded(MaxConversation + 1, MaxData)
     /\ UNCHANGED aux
  \/ /\ DecideAndAskNextQuestion
     /\ Bounded(MaxConversation + 1, MaxData)
     /\ UNCHANGED aux

SpecRepeat == InitMerge /\ [][NextRepeat]_vars

----------------------------------------------------------------------------
(* getConversationHistory over every conversation up to a length            *)

\* largest length of a conversation whose history is computed
MaxHistory == 5

RECURSIVE ConversationHistoryNoReset(_, _, _, _)
ConversationHistoryNoReset(entries, i, currentQuestion, acc) ==
  IF i > Len(entries) THEN acc
  ELSE IF entries[i].author = "agent"
    THEN ConversationHistoryNoReset(entries, i + 1, entries[i].text, acc)
  ELSE IF entries[i].author = "client" /\ currentQuestion # <<>>
    THEN ConversationHistoryNoReset(entries, i + 1, currentQuestion,
           Append(acc, [question |-> currentQuestion, answer |-> entries[i].text]))
  ELSE ConversationHistoryNoReset(entries, i + 1, currentQuestion, acc)

\* getConversationHistory: the loop over the entries from index i;
\* currentQuestion <<>> is null (and the empty text, which is as falsy)
RECURSIVE ConversationHistory(_, _, _, _)
ConversationHistory(entries, i, currentQuestion, acc) ==
  IF i > Len(entries) THEN acc
  ELSE IF entries[i].author = "agent"
    THEN ConversationHistory(entries, i + 1, entries[i].text, acc)
  ELSE IF entries[i].author = "client" /\ currentQuestion # <<>>
    THEN ConversationHistory(entries, i + 1, <<>>,
           Append(acc, [question |-> currentQuestion, answer |-> entries[i].text]))
  ELSE ConversationHistory(entries, i + 1, currentQuestion, acc)

\* getConversationHistory: from the report's conversation, or from the
\* session's message rows when there is no report
GetConversationHistory(hasReport, rep, msgs) ==
  IF hasReport
    THEN ConversationHistory(rep.conversation, 1, <<>>, <<>>)
    ELSE ConversationHistory(msgs, 1, <<>>, <<>>)

\* getConversationHistory(sessionId) as an operation
GetConversationHistoryCall ==
  /\ lastCall' = Call("getConversationHistory", NoText, <<>>, FALSE, 0)
  /\ response' = Reply(200, "history", NoQuestion, NoText, FALSE)
                   @@ [history |-> GetConversationHistory(sessionExists, report,
                                                          messages)]
  /\ UNCHANGED <<questions, sessionExists, sessionState, report, messages, nextId>>

\* the entries a conversation is made of: two questions as /init and
\* decideAndAskNextQuestion word them, and two replies
HistoryEntries ==
  { [author |-> "agent", text |-> QuestionTemplate(1, NumQuestions).questionTemplate,
     questionId |-> QuestionIdOfOrder(1)],
    [author |-> "agent", text |-> QuestionTemplate(2, NumQuestions).questionTemplate,
     questionId |-> QuestionIdOfOrder(2)],
    [author |-> "client", text |-> <<"KCD-12">>, questionId |-> NoQuestion],
    [author |-> "client", text |-> <<"No, thanks">>, questionId |-> NoQuestion] }

\* conversations of a report, ids by position: entries of either author in
\* any order
HistoryConversations ==
  UNION { { [i \in 1..n |-> [id |-> GenerateId(i), author |-> c[i].author,
                              text |-> c[i].text, questionId |-> c[i].questionId]]
              : c \in [1..n -> HistoryEntries] }
          : n \in 0..MaxHistory }

\* getConversationHistory on every such report, and on a session without one
InitHistory ==
  /\ questions = FindBySurveyId(NumQuestions)
  /\ sessionExists \in BOOLEAN
  /\ sessionState = InitialSessionState
  /\ \E conversation \in HistoryConversations :
       /\ sessionExists \/ conversation = <<>>
       /\ report = [conversation |-> conversation, data |-> <<>>, flat |-> <<>>]
  /\ messages = <<>>
  /\ nextId = MaxHistory + 1
  /\ lastCall = Call("none", NoText, <<>>, FALSE, 0)
  /\ response = Reply(0, "none", NoQuestion, NoText, FALSE)
  /\ inflight = [r \in Requests |-> Idle]
  /\ preTurn = InitialReportData
  /\ collaborator = NoOutput
  /\ runnable = Constructed("ServiceBase")

NextHistory == GetConversationHistoryCall /\ UNCHANGED aux

SpecHistory == InitHistory /\ [][NextHistory]_vars

----------------------------------------------------------------------------
(* Sessions whose collaborator is DummyImpl, one turn after another         *)

\* keyLower.includes("today") || includes("plan") || ...
DummyKeyIsPlan(key) == key \in {"todayPlan"}

\* keyLower.includes("roadblock") || includes("obstacle") || ... "blocker"
DummyKeyIsRoadblock(key) == key \in {"roadblocks"}

\* the task after "tomorrow" in the first tomorrowPattern match; "" is none
TomorrowTask(text) == IF text = "tomorrow KCD-13" THEN "KCD-13" ELSE ""

\* /^today\s+[A-Z]+-\d+$/i.test(text.trim())
IsSimpleTodayPattern(text) == text = "Today KCD-12"

\* text.includes(":") || text.match(/kcd-\d+.*kcd-\d+/i)
HasColonOrTwoTasks(text) == text = "Blockers: waiting for API"

\* the task after "today" in the first todayColonPattern match, unless it
\* includes "done" or "blockers"
TodayColonTask(text) == IF text = "Today KCD-12" THEN "KCD-12" ELSE ""

\* the part after "blockers" in the first blockersColonPattern match
BlockersTask(text) ==
  IF text = "Blockers: waiting for API" THEN "waiting for API" ELSE ""

\* extractData, loop body for one key other than the current one: the value
\* the patterns give it; "" is none (no text of the model matches willPattern,
\* and waitingPattern only where blockersColonPattern matched before it)
DummyPatternValue(text, key, currentKey) ==
  IF DummyKeyIsPlan(key)
    THEN IF TomorrowTask(text) # "" THEN TomorrowTask(text)
         ELSE IF /\ currentKey = "yesterdayWork"
                 /\ IsSimpleTodayPattern(text)
                 /\ TomorrowTask(text) = ""
           THEN ""
         ELSE IF currentKey # "yesterdayWork" \/ HasColonOrTwoTasks(text)
           THEN TodayColonTask(text)
         ELSE ""
  ELSE IF DummyKeyIsRoadblock(key) THEN BlockersTask(text)
  ELSE ""

\* extractData, the loop over allDataKeys from index i
RECURSIVE DummyExtractOthers(_, _, _, _, _)
DummyExtractOthers(text, currentKey, allDataKeys, i, extractedData) ==
  IF i > Len(allDataKeys) THEN extractedData
  ELSE LET key   == allDataKeys[i]
           value == DummyPatternValue(text, key, currentKey)
       IN  DummyExtractOthers(text, currentKey, allDataKeys, i + 1,
             IF key # currentKey /\ value # ""
               THEN SetProperty(extractedData, key, StringValue(value))
               ELSE extractedData)

DummyExtractDataPatternsOnly(text, currentKey, allDataKeys) ==
  DummyExtractOthers(text, currentKey, allDataKeys, 1, <<>>)

\* DummyImpl.extractData: the current question's key always gets the text
DummyExtractData(text, currentKey, allDataKeys) ==
  DummyExtractOthers(text, currentKey, allDataKeys, 1,
                     <<[key |-> currentKey, value |-> StringValue(text)]>>)

\* addClientMessage, the collaborator being DummyImpl
DummyAddClientMessage(text) ==
  LET current    == GetCurrentReportData(report)
      currentKey == CurrentQuestionDataKey(current.conversation, questions)
  IN  AddClientMessageStored(text,
        DummyExtractData(TextString(text), currentKey, AllDataKeys(questions)))

\* the replies of the client
DummyTexts ==
  { <<"KCD-12">>, <<"tomorrow KCD-13">>, <<"Today KCD-12">>,
    <<"Blockers: waiting for API">> }

\* surveys of 1..NumQuestions questions with distinct dataKeys, the last
\* question final or none
DummySurveys ==
  UNION { { SubSeq(FindBySurveyId(f), 1, n) : f \in {0, n} } : n \in 1..NumQuestions }

InitDummy ==
  /\ questions \in DummySurveys
  /\ sessionExists = FALSE
  /\ sessionState = [currentOrder |-> 0, completed |-> FALSE]
  /\ report = InitialReportData
  /\ messages = <<>>
  /\ nextId = 1
  /\ lastCall = Call("none", NoText, <<>>, FALSE, 0)
  /\ response = Reply(0, "none", NoQuestion, NoText, FALSE)
  /\ inflight = [r \in Requests |-> Idle]
  /\ preTurn = InitialReportData
  /\ collaborator = NoOutput
  /\ runnable = Constructed("ServiceBase")

\* a session is started by startSession or /init; then each client turn is
\* addClientMessage followed by decideAndAskNextQuestion
NextDummy ==
  \/ StartSession /\ UNCHANGED aux
  \/ InitRoute /\ UNCHANGED aux
  \/ /\ lastCall.op # "addClientMessage"
     /\ \E text \in DummyTexts : DummyAddClientMessage(text)
     /\ Bounded(2 * NumQuestions, 2 * NumQuestions)
     /\ UNCHANGED aux
  \/ /\ lastCall.op = "addClientMessage"
     /\ DecideAndAskNextQuestion
     /\ Bounded(2 * NumQuestions, 2 * NumQuestions)
     /\ UNCHANGED aux

SpecDummy == InitDummy /\ [][NextDummy]_vars

----------------------------------------------------------------------------
(* Two /respond requests on one session, interleaved at their awaits        *)

\* neither request has been received
AllIdle == \A r \in Requests : inflight[r].pc = "idle"

\* a request that has been replied to
Replied == [Idle EXCEPT !.pc = "replied"]

\* request r is at pc
At(r, pc) == inflight[r].pc = pc

\* /respond up to the question of the session's currentOrder: 404 when the
\* session or the question is not found
RespondBegin(r, text) ==
  LET found == GetQuestionByOrder(questions, sessionState.currentOrder)
  IN  /\ At(r, "idle")
      /\ IF ~sessionExists \/ found = <<>>
           THEN /\ lastCall' = Call("respond", text, <<>>, FALSE, 0)
                /\ response' = Reply(404, "error", NoQuestion,
                     IF ~sessionExists THEN <<"Session not found">>
                                       ELSE <<"Question not found">>, FALSE)
                /\ inflight' = [inflight EXCEPT ![r] = Replied]
           ELSE /\ inflight' = [inflight EXCEPT ![r] =
                      [pc |-> "began", text |-> text, current |-> InitialReportData,
                       currentOrder |-> sessionState.currentOrder,
                       question |-> found[1]]]
                /\ UNCHANGED <<lastCall, response>>
      /\ UNCHANGED <<questions, sessionExists, sessionState, report, messages, nextId,
                     preTurn, collaborator, runnable>>

\* /respond from extractData to the choice between endSession and
\* updateSessionOrder; the fail reply when extractData returned null
RespondDecide(r, extNull) ==
  LET question == inflight[r].question
      current  == GetCurrentReportData(report)
      flat     == current.flat[1]
      next     == RespondNextQuestion(questions, flat, inflight[r].currentOrder + 1,
                                      MaxOrder(questions))
      finals   == SelectSeq(questions, LAMBDA q : q.final)
      decided(branch, nextOrder, questionId, message) ==
        [inflight[r] EXCEPT !.pc = "decided"]
          @@ [branch |-> branch, nextOrder |-> nextOrder,
              questionId |-> questionId, message |-> message]
  IN  /\ At(r, "began")
      /\ IF extNull
           THEN /\ lastCall' = Call("respond", inflight[r].text, <<>>, TRUE, 0)
                /\ response' = Reply(200, "fail", question.id,
                     CombineFailWithQuestion(question.failTemplate,
                                             question.questionTemplate), FALSE)
                /\ inflight' = [inflight EXCEPT ![r] = Replied]
           ELSE /\ inflight' = [inflight EXCEPT ![r] =
                     IF question.final
                       THEN decided("endSession", 0, NoQuestion,
                                    RephraseCompletion(question.successTemplate))
                     ELSE IF AllDataKeysProvided(questions, current.data)
                             \/ next.question = <<>>
                       THEN decided("endSession", 0, NoQuestion,
                              IF finals # <<>>
                                THEN RephraseCompletion(finals[1].successTemplate)
                                ELSE <<"Thank you for completing the survey!">>)
                     ELSE decided("updateSessionOrder", next.order, next.question[1].id,
                            RespondQuestionMessage(questions, flat, question,
                              next.question[1], inflight[r].currentOrder, next.order))]
                /\ UNCHANGED <<lastCall, response>>
      /\ UNCHANGED <<questions, sessionExists, sessionState, report, messages, nextId,
                     preTurn, collaborator, runnable>>

\* endSession and updateSessionOrder, first half: surveySessionsRepository.getById
RespondGetById(r) ==
  /\ At(r, "decided")
  /\ inflight' = [inflight EXCEPT ![r] =
                    [inflight[r] EXCEPT !.pc = "read"] @@ [state |-> sessionState]]
  /\ UNCHANGED <<questions, sessionExists, sessionState, report, messages, nextId,
                 lastCall, response, preTurn, collaborator, runnable>>

\* endSession and updateSessionOrder, second half: updateSessionState with the
\* state that was read and changed; then the rest of /respond
RespondUpdateSessionState(r) ==
  /\ At(r, "read")
  /\ lastCall' = Call("respond", inflight[r].text, <<>>, FALSE, 0)
  /\ IF inflight[r].branch = "endSession"
       THEN /\ sessionState' = EndSessionState(inflight[r].state)
            /\ response' = Reply(200, "completed", NoQuestion, inflight[r].message, TRUE)
            /\ UNCHANGED <<report, nextId>>
       ELSE /\ sessionState' = UpdateSessionOrderState(inflight[r].state,
                                                       inflight[r].nextOrder)
            /\ report' = AddAgentQuestion(report, nextId, inflight[r].questionId,
                                          inflight[r].message)
            /\ nextId' = nextId + 1
            /\ response' = Reply(500, "asked", inflight[r].questionId,
                                 inflight[r].message, FALSE)
  /\ inflight' = [inflight EXCEPT ![r] = Replied]
  /\ UNCHANGED <<questions, sessionExists, messages, preTurn, collaborator, runnable>>

\* the session is started, answered, moved on and ended; then two /respond
\* requests are received and handled, interleaved at their awaits
NextTurns ==
  \/ AllIdle /\ StartSession /\ UNCHANGED aux
  \/ AllIdle /\ InitRoute /\ UNCHANGED aux
  \/ AllIdle /\ EndSession /\ UNCHANGED aux
  \/ /\ AllIdle
     /\ \E newOrder \in {1, NumQuestions} : UpdateSessionOrder(newOrder)
     /\ UNCHANGED aux
  \/ /\ AllIdle
     /\ \E text \in TurnTexts : AddClientMessage(text, TurnMaps)
     /\ Bounded(MaxConversation, MaxData)
     /\ UNCHANGED aux
  \/ \E r \in Requests : RespondBegin(r, RequestText(r))
  \/ \E r \in Requests, extNull \in BOOLEAN : RespondDecide(r, extNull)
  \/ \E r \in Requests : RespondGetById(r)
  \/ /\ \E r \in Requests : RespondUpdateSessionState(r)
     /\ Bounded(MaxConversation, MaxData)

SpecTurns == Init /\ [][NextTurns]_vars

----------------------------------------------------------------------------
(* ServiceBase and BaseFastifyPlugin: runState, ready, start() and stop()   *)

\* the classes with this life cycle
RunnableKinds == {"ServiceBase", "BaseFastifyPlugin"}

\* what the session operations leave alone is all a Runnable step leaves alone
session == <<questions, sessionExists, sessionState, report, messages, nextId,
             lastCall, response, inflight, preTurn, collaborator>>

\* the awaited step after step of the initialization; "done" after the last
InitStepAfter(kind, step) ==
  CASE step = "initialize"       -> "done"
    [] step = "initializePre"    -> "initializeRoutes"
    [] step = "initializeRoutes" -> "initializePost"
    [] step = "initializePost"   -> "done"

\* _initialize / initialize resumed after an awaited step: the next step, or
\* runState "initialized" and ready resolved; the catch block when it threw
InitializeResumed(rn, threw) ==
  IF threw
    THEN [rn EXCEPT !.runState = "failed", !.ready = "rejected", !.init = "threw"]
  ELSE IF InitStepAfter(rn.kind, rn.init) = "done"
    THEN [rn EXCEPT !.runState = "initialized", !.ready = "resolved", !.init = "done"]
  ELSE [rn EXCEPT !.init = InitStepAfter(rn.kind, rn.init)]

StartAfterReadyUnawaited(rn) ==
  [rn EXCEPT !.runState = "starting", !.start = "onStart"]

\* start() resumed after await this.ready
StartAfterReady(rn) ==
  IF rn.ready = "rejected"
    THEN [rn EXCEPT !.runState = "failed", !.start = "idle", !.started = "rejected"]
    ELSE [rn EXCEPT !.runState = "starting", !.start = "onStart"]

\* start() resumed after await this.onStart(...)
StartAfterOnStart(rn, threw) ==
  IF threw
    THEN [rn EXCEPT !.runState = "failed", !.start = "idle", !.started = "rejected"]
    ELSE [rn EXCEPT !.runState = "running", !.start = "idle", !.started = "resolved"]

\* stop() resumed after await this.ready
StopAfterReady(rn) ==
  IF rn.ready = "rejected"
    THEN [rn EXCEPT !.runState = "failed", !.stop = "idle", !.stopped = "rejected"]
    ELSE [rn EXCEPT !.runState = "stopping", !.stop = "onStop"]

\* stop() resumed after await this.onStop(...)
StopAfterOnStop(rn, threw) ==
  IF threw
    THEN [rn EXCEPT !.runState = "failed", !.stop = "idle", !.stopped = "rejected"]
    ELSE [rn EXCEPT !.runState = "stopped", !.stop = "idle", !.stopped = "resolved"]

\* an awaited initialization step settles
InitializeStep(threw) ==
  /\ runnable.init \notin {"done", "threw"}
  /\ runnable' = InitializeResumed(runnable, threw)
  /\ UNCHANGED session

\* start(...) is called: it runs up to await this.ready
StartCalled ==
  /\ runnable.start = "idle"
  /\ runnable' = [runnable EXCEPT !.start = "ready", !.started = "pending"]
  /\ UNCHANGED session

\* ready has settled and start() resumes
StartResumed ==
  /\ runnable.start = "ready"
  /\ runnable.ready # "pending"
  /\ runnable' = StartAfterReady(runnable)
  /\ UNCHANGED session

\* onStart settles
OnStartSettled(threw) ==
  /\ runnable.start = "onStart"
  /\ runnable' = StartAfterOnStart(runnable, threw)
  /\ UNCHANGED session

\* stop(...) is called: it runs up to await this.ready
StopCalled ==
  /\ runnable.stop = "idle"
  /\ runnable' = [runnable EXCEPT !.stop = "ready", !.stopped = "pending"]
  /\ UNCHANGED session

\* ready has settled and stop() resumes
StopResumed ==
  /\ runnable.stop = "ready"
  /\ runnable.ready # "pending"
  /\ runnable' = StopAfterReady(runnable)
  /\ UNCHANGED session

\* onStop settles
OnStopSettled(threw) ==
  /\ runnable.stop = "onStop"
  /\ runnable' = StopAfterOnStop(runnable, threw)
  /\ UNCHANGED session

InitRunnable ==
  /\ questions = FindBySurveyId(NumQuestions)
  /\ sessionExists = FALSE
  /\ sessionState = [currentOrder |-> 0, completed |-> FALSE]
  /\ report = InitialReportData
  /\ messages = <<>>
  /\ nextId = 1
  /\ lastCall = Call("none", NoText, <<>>, FALSE, 0)
  /\ response = Reply(0, "none", NoQuestion, NoText, FALSE)
  /\ inflight = [r \in Requests |-> Idle]
  /\ preTurn = InitialReportData
  /\ collaborator = NoOutput
  /\ \E kind \in RunnableKinds : runnable = Constructed(kind)

\* start() and stop() are called at any time, again after they have settled,
\* and overlap with the initialization and with each other
NextRunnable ==
  \/ \E threw \in BOOLEAN : InitializeStep(threw)
  \/ StartCalled
  \/ StartResumed
  \/ \E threw \in BOOLEAN : OnStartSettled(threw)
  \/ StopCalled
  \/ StopResumed
  \/ \E threw \in BOOLEAN : OnStopSettled(threw)

SpecRunnable == InitRunnable /\ [][NextRunnable]_vars

----------------------------------------------------------------------------
(* YandexImpl when the language model gives a JSON object                   *)

\* largest number of members of the object the model gives
MaxMembers == 2

\* members of that object: a string, an empty object or null for the first
\* question's key, a string or null for the second's, and a key of no question
ObjectMembers ==
  { OutputMember(KeyNames[1], StringValue("KCD-13")),
    OutputMember(KeyNames[1], ObjectValue(0)),
    OutputMember(KeyNames[1], NullValue),
    OutputMember(KeyNames[2], StringValue("KCD-13")),
    OutputMember(KeyNames[2], NullValue),
    OutputMember(ForeignKey, StringValue("KCD-13")) }

\* response.output_text: "{" members "}"
ObjectReplies ==
  { [outputText |-> <<OutputToken("{")>> \o members \o <<OutputToken("}")>>,
     threw |-> FALSE]
      : members \in UNION { [1..n -> ObjectMembers] : n \in 0..MaxMembers } }

InitYandexObjects ==
  /\ questions = FindBySurveyId(NumQuestions)
  /\ sessionExists = FALSE
  /\ sessionState = [currentOrder |-> 0, completed |-> FALSE]
  /\ report = InitialReportData
  /\ messages = <<>>
  /\ nextId = 1
  /\ lastCall = Call("none", NoText, <<>>, FALSE, 0)
  /\ response = Reply(0, "none", NoQuestion, NoText, FALSE)
  /\ inflight = [r \in Requests |-> Idle]
  /\ preTurn = InitialReportData
  /\ collaborator \in ObjectReplies
  /\ runnable = Constructed("ServiceBase")

SpecYandexObjects == InitYandexObjects /\ [][NextYandex]_vars

----------------------------------------------------------------------------
(* Vocabulary of the properties *)

\* whether the data array holds an entry, of either type, for the key
KeyHasEntry(data, key) == \E i \in 1..Len(data) : data[i].key = key

\* the number of entries of a type for a key
CountEntries(data, key, type) ==
  Cardinality({i \in 1..Len(data) : data[i].key = key /\ data[i].type = type})

\* whether the step is a successful addClientMessage (it appends to the conversation)
IsMergeStep ==
  /\ lastCall'.op = "addClientMessage"
  /\ ~lastCall'.extNull
  /\ Len(report'.conversation) = Len(report.conversation) + 1

\* the entries of an extraction result that are kept: neither null nor {}
KeptEntries(ext) ==
  SelectSeq(ext, LAMBDA e : e.value.t # "null" /\ ~(e.value.t = "object" /\ e.value.n = 0))

\* the conversation entries a step appended
Appended(old, new) == SubSeq(new, Len(old) + 1, Len(new))

\* the template of a question id
TemplateOfId(id) == CHOOSE q \in {questions[i] : i \in 1..Len(questions)} : q.id = id

----------------------------------------------------------------------------
(* C1: in every report reached by addClientMessage merges, whatever the     *)
(* question being answered and the extraction result, each key has at most *)
(* one data entry of type "freeform".                                      *)
C1_FreeformUnique ==
  \A i, j \in 1..Len(report.data) :
    ( /\ report.data[i].type = "freeform"
      /\ report.data[j].type = "freeform"
      /\ report.data[i].key = report.data[j].key ) => i = j

\* a freeform entry was written a second time: it sits before an older entry
C1_Witness ==
  \E i, j \in 1..Len(report.data) :
    /\ i < j
    /\ report.data[i].type = "freeform"
    /\ report.data[i].id > report.data[j].id

(* C2: a merge leaves every existing "extracted" entry where and as it is,  *)
(* and adds exactly one extracted entry for each kept key other than the   *)
(* current question's key, so N extracted writes for a key leave N entries *)
(* for it, equal values included.                                          *)
C2_ExtractedAccumulate ==
  [][ /\ \A i \in 1..Len(report.data) :
           report.data[i].type = "extracted"
             => /\ i <= Len(report'.data)
                /\ report'.data[i] = report.data[i]
      /\ IsMergeStep =>
           LET currentKey == CurrentQuestionDataKey(report.conversation, questions)
               kept       == KeptEntries(lastCall'.ext)
           IN  \A k \in SurveyKeys \cup {ForeignKey} :
                 CountEntries(report'.data, k, "extracted")
                   = CountEntries(report.data, k, "extracted")
                     + (IF k # currentKey /\ \E n \in 1..Len(kept) : kept[n].key = k
                          THEN 1 ELSE 0)
    ]_vars

\* two extracted entries for one key with equal values
C2_Witness ==
  \E i, j \in 1..Len(report.data) :
    /\ i < j
    /\ report.data[i].type = "extracted" /\ report.data[j].type = "extracted"
    /\ report.data[i].key = report.data[j].key
    /\ report.data[i].value = report.data[j].value
    /\ report.data[i].id # report.data[j].id

(* C3: the question decideAndAskNextQuestion returns is the lowest-order    *)
(* question whose dataKey has no data entry; it never returns a question   *)
(* whose dataKey has an entry of either type.                              *)
C3_NextIsFirstUnanswered ==
  ( /\ lastCall.op = "decideAndAskNextQuestion"
    /\ response.kind = "decision"
    /\ response.questionId # NoQuestion )
  => LET q == TemplateOfId(response.questionId)
     IN  /\ ~KeyHasEntry(report.data, q.dataKey)
         /\ \A i \in 1..Len(questions) :
              questions[i].order < q.order => KeyHasEntry(report.data, questions[i].dataKey)

\* the decision skipped an answered question and left a later answered one
C3_Witness ==
  /\ lastCall.op = "decideAndAskNextQuestion"
  /\ response.questionId = questions[2].id
  /\ KeyHasEntry(report.data, questions[1].dataKey)
  /\ KeyHasEntry(report.data, questions[3].dataKey)

(* C4: once SessionState.completed is true it is true in every later state, *)
(* whatever operation runs next on the session.                            *)
C4_CompletedIsOneWay ==
  [][ sessionState.completed => sessionState'.completed ]_vars

\* a /respond turn issued a question on a completed session
C4_Witness ==
  /\ sessionState.completed
  /\ lastCall.op = "respond"
  /\ response.kind = "asked"

(* C5: after completed has become true no later turn changes the persisted  *)
(* report.                                                                 *)
C5_ReportFrozenAfterCompletion ==
  [][ sessionState.completed
        => /\ report'.conversation = report.conversation
           /\ report'.data = report.data ]_vars

(* C6: whenever the dataKey of the final question is answered, the          *)
(* progression decision returns completed = true, other questions being    *)
(* unanswered or not.                                                      *)
C6_FinalAnsweredCompletes ==
  ( /\ lastCall.op = "decideAndAskNextQuestion"
    /\ response.kind = "decision"
    /\ \E i \in 1..Len(questions) :
         questions[i].final /\ KeyHasEntry(report.data, questions[i].dataKey) )
  => response.completed

(* C7: when every question's dataKey has a data entry,                      *)
(* decideAndAskNextQuestion returns questionId = null and completed = true *)
(* and the persisted SessionState.completed is true.                       *)
C7_AllAnsweredCompletes ==
  ( /\ lastCall.op = "decideAndAskNextQuestion"
    /\ response.kind = "decision"
    /\ \A i \in 1..Len(questions) : KeyHasEntry(report.data, questions[i].dataKey) )
  => /\ response.questionId = NoQuestion
     /\ response.completed
     /\ sessionState.completed

C7_Witness ==
  /\ lastCall.op = "decideAndAskNextQuestion"
  /\ response.kind = "decision"
  /\ \A i \in 1..Len(questions) : KeyHasEntry(report.data, questions[i].dataKey)
  /\ Len(report.data) >= NumQuestions

(* C8: when extraction returns null the /respond turn answers with the     *)
(* failTemplate of the current question (the template of                   *)
(* SessionState.currentOrder) combined with that question, and             *)
(* currentOrder, completed and the question being asked are as before.     *)
C8_FailLeavesProgression ==
  [][ (lastCall'.extNull /\ lastCall'.op \in {"respond", "addClientMessage"})
        => /\ sessionState' = sessionState
           /\ LastAgentMsg(report'.conversation) = LastAgentMsg(report.conversation)
           /\ (lastCall'.op = "respond" /\ sessionExists)
                => LET q == GetQuestionByOrder(questions, sessionState.currentOrder)[1]
                   IN  /\ response'.status = 200
                       /\ response'.kind = "fail"
                       /\ response'.message
                            = q.failTemplate \o <<"\n\n">> \o q.questionTemplate
    ]_vars

\* a failed extraction on a later question of a session that is being asked it
C8_Witness ==
  /\ lastCall.op = "respond"
  /\ lastCall.extNull
  /\ response.kind = "fail"
  /\ sessionState.currentOrder = 2
  /\ LastAgentMsg(report.conversation) # <<>>
  /\ LastAgentMsg(report.conversation)[1].questionId = questions[2].id

(* C9: when extraction returns null the persisted report after the turn is  *)
(* the report before it plus one conversation entry with author "client"   *)
(* and the raw text; data is unchanged.                                    *)
C9_FailRecordsClientMessage ==
  [][ (lastCall'.extNull /\ lastCall'.op \in {"respond", "addClientMessage"} /\ sessionExists)
        => /\ Len(report'.conversation) = Len(report.conversation) + 1
           /\ SubSeq(report'.conversation, 1, Len(report.conversation)) = report.conversation
           /\ report'.conversation[Len(report'.conversation)].author = "client"
           /\ report'.conversation[Len(report'.conversation)].text = lastCall'.text
           /\ report'.data = report.data
    ]_vars

C12_SuccessOfJustAnswered ==
  LET conv == report.conversation
      n    == Len(conv)
  IN  (/\ lastCall.op = "decideAndAskNextQuestion"
       /\ sessionExists
       /\ response.questionId # NoQuestion)
        => LET next == TemplateOfId(response.questionId)
           IN  /\ SelectSeq(conv, LAMBDA m : m.author = "client") = <<>>
                    => response.message = next.questionTemplate
               /\ (/\ n >= 3
                   /\ conv[n - 1].author = "client"
                   /\ conv[n - 2].author = "agent"
                   /\ conv[n - 2].questionId # NoQuestion
                   /\ KeyHasEntry(report.data,
                                  TemplateOfId(conv[n - 2].questionId).dataKey))
                    => response.message
                         = TemplateOfId(conv[n - 2].questionId).successTemplate
                             \o <<"\n\n">> \o next.questionTemplate

(* C13: on completion the returned message is the successTemplate of the   *)
(* question with final = true, and a generic thank-you text when the       *)
(* survey has no final question.                                           *)
C13_CompletionMessage ==
  LET finals == SelectSeq(questions, LAMBDA q : q.final)
  IN  (/\ lastCall.op \in {"decideAndAskNextQuestion", "respond"}
       /\ sessionExists
       /\ response.completed)
        => IF finals # <<>>
             THEN response.message = finals[1].successTemplate
             ELSE response.message \in { <<"Thank you! Survey completed.">>,
                                         <<"Thank you for completing the survey!">> }

(* C14: every decision of decideAndAskNextQuestion appends exactly one      *)
(* conversation entry with author "agent" that carries the returned        *)
(* message, with questionId the next question's id, or null when the       *)
(* decision is completed.                                                  *)
C14_DecisionRecorded ==
  [][ (lastCall'.op = "decideAndAskNextQuestion" /\ sessionExists)
        => LET asked == Appended(report.conversation, report'.conversation)
           IN  /\ Len(report'.conversation) = Len(report.conversation) + 1
               /\ Len(asked) = 1
               /\ asked[1].author = "agent"
               /\ asked[1].text = response'.message
               /\ asked[1].questionId = response'.questionId
               /\ response'.completed => asked[1].questionId = NoQuestion
    ]_vars

(* C15: for every report and key k, if data holds a freeform entry for k,   *)
(* the _flatData built by getCurrentReportData maps k to that entry's      *)
(* value, whatever the number of extracted entries for k and whether they  *)
(* come before or after it.                                                *)
C15_FlattenFreeformWins ==
  response.kind = "reportData"
    => LET data == response.reportData.data
           flat == response.reportData.flat[1]
       IN  \A i \in 1..Len(data) :
             data[i].type = "freeform"
               => /\ data[i].key \in DOMAIN flat
                  /\ flat[data[i].key] = data[i].value

\* a key with an extracted entry before and after its freeform entry
C15_Witness ==
  /\ response.kind = "reportData"
  /\ LET data == response.reportData.data
         flat == response.reportData.flat[1]
     IN  /\ Len(data) = 3
         /\ data[1].key = data[2].key /\ data[2].key = data[3].key
         /\ data[1].type = "extracted" /\ data[3].type = "extracted"
         /\ data[2].type = "freeform"
         /\ data[1].value # data[2].value /\ data[3].value # data[2].value
         /\ flat[data[2].key] = data[2].value

(* C16: for every report and key k that has only extracted entries, the    *)
(* _flatData maps k to the value of the first-inserted extracted entry for *)
(* k, not to a later one.                                                  *)
C16_FlattenFirstExtracted ==
  response.kind = "reportData"
    => LET data == response.reportData.data
           flat == response.reportData.flat[1]
       IN  \A i \in 1..Len(data) :
             (/\ CountEntries(data, data[i].key, "freeform") = 0
              /\ \A j \in 1..(i - 1) : data[j].key # data[i].key)
               => /\ data[i].key \in DOMAIN flat
                  /\ flat[data[i].key] = data[i].value

\* a key with two extracted entries of different values and no freeform one
C16_Witness ==
  /\ response.kind = "reportData"
  /\ LET data == response.reportData.data
         flat == response.reportData.flat[1]
     IN  /\ Len(data) = 3
         /\ data[1].key = data[3].key
         /\ CountEntries(data, data[1].key, "freeform") = 0
         /\ data[1].value # data[3].value
         /\ flat[data[1].key] = data[1].value

(* C17: SessionState.currentOrder never decreases over the turns of a       *)
(* session: no /init, /respond, addClientMessage, decideAndAskNextQuestion *)
(* or endSession step persists a currentOrder smaller than the one before. *)
C17_CurrentOrderMonotone ==
  [][ lastCall'.op \in {"startSession", "init", "respond", "addClientMessage",
                        "decideAndAskNextQuestion", "endSession"}
        => sessionState'.currentOrder >= sessionState.currentOrder ]_vars

\* a /respond turn moved currentOrder past a question that already had data
C17_Witness ==
  /\ lastCall.op = "respond"
  /\ response.kind = "asked"
  /\ response.questionId = questions[3].id
  /\ sessionState.currentOrder = 3
  /\ Len(report.conversation) = 3
  /\ report.conversation[1].questionId = questions[1].id
  /\ report.conversation[3].questionId = questions[3].id

(* C18: two addClientMessage calls of one session in progress at once each  *)
(* write back the report they read plus their own entries: whatever        *)
(* another request persisted between a request's read and its write is     *)
(* absent from the report after the write (lost update).                   *)
C18_LostUpdate ==
  [][ \A r \in Requests :
        (/\ inflight[r].pc = "read"
         /\ inflight'[r].pc = "idle"
         /\ response'.kind = "merged")
          => LET read == inflight[r].current
                 n    == Len(read.conversation)
             IN  /\ Len(report'.conversation) = n + 1
                 /\ SubSeq(report'.conversation, 1, n) = read.conversation
                 /\ report'.conversation[n + 1].author = "client"
                 /\ report'.conversation[n + 1].text = inflight[r].text
                 /\ \A i \in 1..Len(report.conversation) :
                      (\A j \in 1..n : read.conversation[j].id # report.conversation[i].id)
                        => \A j \in 1..(n + 1) :
                             report'.conversation[j].id # report.conversation[i].id
                 /\ \A i \in 1..Len(report.data) :
                      (\A j \in 1..Len(read.data) : read.data[j].id # report.data[i].id)
                        => \A j \in 1..Len(report'.data) :
                             report'.data[j].id # report.data[i].id
    ]_vars

\* both requests have written, the session has the message rows of both, and
\* the report has the conversation entry and the data of the second only
C18_Witness ==
  /\ \A r \in Requests : inflight[r].pc = "idle"
  /\ response.kind = "merged"
  /\ Len(SelectSeq(messages, LAMBDA m : m.author = "client")) = 2
  /\ messages[1].text # messages[2].text
  /\ Len(report.conversation) = 1
  /\ report.conversation[1].author = "client"
  /\ report.conversation[1].text = messages[2].text
  /\ Len(report.data) = 1
  /\ nextId = 6

(* C19: a turn is all-or-nothing.  If a call inside addClientMessage or     *)
(* decideAndAskNextQuestion throws, the persisted report is exactly the    *)
(* report before the turn: same conversation, same data.                   *)
C19_TurnAllOrNothing ==
  [][ (/\ lastCall'.op \in {"addClientMessage", "decideAndAskNextQuestion"}
       /\ sessionExists
       /\ response'.status = 500)
        => /\ report'.conversation = preTurn'.conversation
           /\ report'.data = preTurn'.data
    ]_vars

\* whether the data array holds an entry for the key whose value is
\* none-equivalent
NoneAnswered(data, key) ==
  \E i \in 1..Len(data) :
    data[i].key = key /\ IsNoneValue(StringValue(data[i].value))

(* C20: a question whose dataKey has a data entry with a none-equivalent    *)
(* value counts as answered: neither decideAndAskNextQuestion nor /respond *)
(* asks it, and when every question is answered that way the decision is   *)
(* completed.                                                              *)
C20_NoneCountsAsAnswered ==
  [][ /\ LET asked == Appended(report.conversation, report'.conversation)
         IN  \A n \in 1..Len(asked) :
               (asked[n].author = "agent" /\ asked[n].questionId # NoQuestion)
                 => ~NoneAnswered(report'.data, TemplateOfId(asked[n].questionId).dataKey)
      /\ (/\ sessionExists
          /\ \A i \in 1..Len(questions) : NoneAnswered(report.data, questions[i].dataKey)
          /\ \/ lastCall'.op = "decideAndAskNextQuestion"
             \/ lastCall'.op = "respond" /\ ~lastCall'.extNull)
           => /\ response'.completed
              /\ response'.questionId = NoQuestion
              /\ sessionState'.completed
    ]_vars

\* every question was answered with a none-equivalent value, in more than one
\* spelling, and the decision completed the survey
C20_Witness ==
  /\ lastCall.op = "decideAndAskNextQuestion"
  /\ response.completed
  /\ sessionState.completed
  /\ \A i \in 1..Len(questions) : NoneAnswered(report.data, questions[i].dataKey)
  /\ \E i, j \in 1..Len(report.data) : report.data[i].value # report.data[j].value
  /\ \E i \in 1..Len(report.data) : report.data[i].value = "No Problems at all"

(* C21: for every key that the extraction result maps to null or to an     *)
(* empty object, addClientMessage creates no data entry: the key has an    *)
(* entry after the merge only if it had one before.                        *)
C21_NullAndEmptyDropped ==
  [][ IsMergeStep =>
        \A n \in 1..Len(lastCall'.ext) :
          LET e == lastCall'.ext[n]
          IN  (e.value = NullValue \/ e.value = ObjectValue(0))
                => /\ \A i \in 1..Len(report'.data) :
                        report'.data[i].key = e.key => report'.data[i].id < nextId
                   /\ KeyHasEntry(report'.data, e.key) <=> KeyHasEntry(report.data, e.key)
                   /\ CountEntries(report'.data, e.key, "freeform")
                        = CountEntries(report.data, e.key, "freeform")
                   /\ CountEntries(report'.data, e.key, "extracted")
                        = CountEntries(report.data, e.key, "extracted")
    ]_vars

\* a reply whose extraction gave null for one question's key and {} for
\* another's: the client entry is recorded and no data entry is
C21_Witness ==
  /\ lastCall.op = "addClientMessage"
  /\ ~lastCall.extNull
  /\ Len(lastCall.ext) = 2
  /\ lastCall.ext[1].value = NullValue
  /\ lastCall.ext[2].value = ObjectValue(0)
  /\ lastCall.ext[1].key \in SurveyKeys
  /\ lastCall.ext[2].key \in SurveyKeys
  /\ report.data = <<>>
  /\ Len(report.conversation) = 2
  /\ report.conversation[2].author = "client"

\* the language model's output from its first "{" to the matching "}"
OutputObjectText == NormalizeJsonString(collaborator.outputText)

\* no output text, no JSON object in it, or one that does not parse
MalformedOutput ==
  /\ ~collaborator.threw
  /\ \/ collaborator.outputText = <<>>
     \/ OutputObjectText = <<>>
     \/ \E i \in 2..(Len(OutputObjectText) - 1) : OutputObjectText[i].c # "member"

\* a JSON object that has no value that is neither null nor {} for any
\* of the survey's keys
NoUsableOutput ==
  /\ ~collaborator.threw
  /\ OutputObjectText # <<>>
  /\ \A i \in 2..(Len(OutputObjectText) - 1) :
       /\ OutputObjectText[i].c = "member"
       /\ OutputObjectText[i].key \in SurveyKeys
            => OutputObjectText[i].value \in {NullValue, ObjectValue(0)}

(* C22: a turn whose extraction output is malformed (no output text, no     *)
(* JSON object, unparsable JSON) ends as a turn whose extraction has no     *)
(* usable data does: extractData returns null, addClientMessage throws      *)
(* before any write and /respond takes its fail branch, so the state after  *)
(* the call depends on the state before it and not on the output.           *)
C22_MalformedIsExtractionFailed ==
  [][ (MalformedOutput \/ NoUsableOutput) =>
        /\ lastCall'.op = "addClientMessage" =>
             /\ lastCall'.extNull
             /\ response' = Reply(500, "error", NoQuestion,
                                  <<"Failed to extract data from client message">>,
                                  FALSE)
             /\ UNCHANGED <<sessionExists, sessionState, report, messages, nextId>>
        /\ ( /\ lastCall'.op = "respond"
             /\ sessionExists
             /\ GetQuestionByOrder(questions, sessionState.currentOrder) # <<>> ) =>
             LET question == GetQuestionByOrder(questions, sessionState.currentOrder)[1]
             IN  /\ lastCall'.extNull
                 /\ response' = Reply(200, "fail", question.id,
                                  CombineFailWithQuestion(question.failTemplate,
                                                          question.questionTemplate),
                                  FALSE)
                 /\ UNCHANGED <<sessionExists, sessionState, report, messages, nextId>>
    ]_vars

\* the language model wrapped free text in braces: /respond has taken the
\* fail branch
C22_Witness ==
  /\ collaborator.outputText
       = <<OutputToken("{"), OutputToken("text"), OutputToken("}")>>
  /\ MalformedOutput
  /\ lastCall.op = "respond"
  /\ lastCall.extNull
  /\ response.kind = "fail"
  /\ Len(report.conversation) = 1

(* C23: for an existing survey, startSession persists a session with       *)
(* completed = false and a report with empty conversation and empty data,  *)
(* and returns the question template of the lowest order, null when the    *)
(* survey has no questions.                                                *)
C23_StartSession ==
  [][ (lastCall'.op = "startSession" /\ "known" \notin DOMAIN lastCall') =>
        /\ sessionExists'
        /\ sessionState'.completed = FALSE
        /\ report'.conversation = <<>>
        /\ report'.data = <<>>
        /\ response'.status = 200
        /\ questions = <<>> => response'.questionId = NoQuestion
        /\ questions # <<>> =>
             \E i \in 1..Len(questions) :
               /\ questions[i].id = response'.questionId
               /\ \A j \in 1..Len(questions) : questions[i].order <= questions[j].order
    ]_vars

\* a session of the survey without questions has been started
C23_Witness ==
  /\ questions = <<>>
  /\ lastCall.op = "startSession"
  /\ "known" \notin DOMAIN lastCall
  /\ sessionExists
  /\ response.questionId = NoQuestion
  /\ report = InitialReportData

\* whether the step is an operation that names an unknown survey or session
CallsUnknown ==
  \/ "known" \in DOMAIN lastCall'
  \/ ~sessionExists /\ lastCall'.op \in SessionOperations

(* C24: an operation on an unknown survey or session (startSession with an *)
(* unknown externalId; endSession, updateSessionOrder, addClientMessage,   *)
(* decideAndAskNextQuestion with an unknown sessionId) ends in an error    *)
(* and leaves every stored session, report and message unchanged; no       *)
(* record is created.                                                      *)
C24_NotFoundChangesNothing ==
  [][ CallsUnknown =>
        /\ response'.kind = "error"
        /\ response'.status = 500
        /\ UNCHANGED <<questions, sessionExists, sessionState, report, messages,
                       nextId>>
    ]_vars

\* addClientMessage has named an unknown session while a session with a
\* conversation and data of its own is stored
C24_Witness ==
  /\ "known" \in DOMAIN lastCall
  /\ lastCall.op = "addClientMessage"
  /\ response.kind = "error"
  /\ sessionExists
  /\ Len(report.conversation) >= 2
  /\ Len(report.data) >= 1
  /\ Len(messages) >= 2

(* C25: if decideAndAskNextQuestion returned completed = true, the next     *)
(* call of it, no client message in between, returns completed = true      *)
(* again and leaves the persisted report unchanged.                        *)
C25_CompletedDecisionRepeats ==
  [][ ( /\ lastCall.op = "decideAndAskNextQuestion"
        /\ response.kind = "decision"
        /\ response.completed
        /\ lastCall'.op = "decideAndAskNextQuestion" ) =>
        /\ response'.kind = "decision"
        /\ response'.completed
        /\ response' = response
        /\ report' = report
    ]_vars

\* every question is answered and the decision has been completed = true
C25_Witness ==
  /\ lastCall.op = "decideAndAskNextQuestion"
  /\ response.kind = "decision"
  /\ response.completed
  /\ sessionState.completed
  /\ \A i \in 1..Len(questions) : KeyHasEntry(report.data, questions[i].dataKey)
  /\ Len(report.conversation) >= 2

\* the flattened view as a function of a data array alone: a key's
\* freeform value if it has one, else the value of its first entry
FlatOf(data) ==
  [k \in {data[i].key : i \in 1..Len(data)} |->
     LET entries  == {i \in 1..Len(data) : data[i].key = k}
         freeform == {i \in entries : data[i].type = "freeform"}
         first    == CHOOSE i \in entries : \A j \in entries : i <= j
     IN  IF freeform # {}
           THEN data[CHOOSE i \in freeform : TRUE].value
           ELSE data[first].value]

(* C26: the flattened view is a function of the report's data array alone *)
(* (the conversation does not enter into it), computing it again on an     *)
(* unmodified report gives the same map, and getCurrentReportData does not *)
(* change the persisted report.                                            *)
C26_FlattenIsPure ==
  [][ lastCall'.op = "getCurrentReportData" =>
        /\ report' = report
        /\ sessionExists =>
             /\ response'.kind = "reportData"
             /\ response'.reportData.data = report.data
             /\ response'.reportData.flat = <<FlatOf(report.data)>>
        /\ response.kind = "reportData" =>
             response'.reportData.flat = response.reportData.flat
    ]_vars

\* the view of a report with a conversation and three data entries over
\* two keys has been computed, the persisted report having no view in it
C26_Witness ==
  /\ lastCall.op = "getCurrentReportData"
  /\ response.kind = "reportData"
  /\ report.conversation # <<>>
  /\ Len(report.data) = 3
  /\ Cardinality(DOMAIN response.reportData.flat[1]) = 2
  /\ report.flat = <<>>

\* the dataKey of the question that the last agent entry of a conversation
\* refers to; the first question's when there is no such entry or question
AskedKey(conversation) ==
  LET agents == {i \in 1..Len(conversation) : conversation[i].author = "agent"}
      last   == CHOOSE i \in agents : \A j \in agents : j <= i
      asked  == {j \in 1..Len(questions) :
                   questions[j].id = conversation[last].questionId}
  IN  IF agents = {} \/ asked = {}
        THEN questions[1].dataKey
        ELSE questions[CHOOSE j \in asked : TRUE].dataKey

IsPrefix(a, b) == Len(a) <= Len(b) /\ SubSeq(b, 1, Len(a)) = a

(* C28: the conversation is append-only: whenever an operation of a        *)
(* session (addAgentQuestionToConversation, addClientMessage,              *)
(* decideAndAskNextQuestion, executed one after another) writes the        *)
(* report, the conversation persisted before it is a prefix of the one     *)
(* persisted after it: no entry is removed, reordered or altered.          *)
C28_ConversationAppendOnly ==
  [][ sessionExists =>
        /\ IsPrefix(report.conversation, report'.conversation)
        /\ Len(report'.conversation) <= Len(report.conversation) + 1
    ]_vars

\* a question asked by /init, a reply recorded by addClientMessage and a
\* question asked by decideAndAskNextQuestion, in that order
C28_Witness ==
  /\ lastCall.op = "decideAndAskNextQuestion"
  /\ Len(report.conversation) = 3
  /\ report.conversation[1].author = "agent"
  /\ report.conversation[1].text = RephraseQuestion(questions[1].questionTemplate)
  /\ report.conversation[2].author = "client"
  /\ report.conversation[3].author = "agent"
  /\ report.conversation[1].id < report.conversation[2].id
  /\ report.conversation[2].id < report.conversation[3].id

(* C29: a freeform write for a key that already has a freeform entry       *)
(* replaces that entry at its existing position with the new value; every  *)
(* other data entry keeps its position, key, value and type (and id), and  *)
(* the number of data entries grows only by the other values of the same   *)
(* reply: it does not change when the reply has no other value.            *)
C29_FreeformReplacedInPlace ==
  [][ IsMergeStep =>
        LET kept == KeptEntries(lastCall'.ext)
            key  == AskedKey(report.conversation)
            old  == {i \in 1..Len(report.data) :
                       report.data[i].key = key /\ report.data[i].type = "freeform"}
        IN  \A n \in 1..Len(kept) :
              (kept[n].key = key /\ old # {})
                => /\ Len(report'.data) = Len(report.data) + Len(kept) - 1
                   /\ \A i \in 1..Len(report.data) :
                        IF i \in old
                          THEN /\ report'.data[i].key = key
                               /\ report'.data[i].type = "freeform"
                               /\ report'.data[i].value = StringOf(kept[n].value)
                          ELSE report'.data[i] = report.data[i]
    ]_vars

\* the first question was answered together with the second and then
\* answered again: its freeform entry, still first, is the newer one, and
\* there are still two entries
C29_Witness ==
  /\ lastCall.op = "addClientMessage"
  /\ ~lastCall.extNull
  /\ Len(lastCall.ext) = 1
  /\ Len(report.data) = 2
  /\ lastCall.ext[1].key = report.data[1].key
  /\ report.data[1].type = "freeform"
  /\ report.data[1].value = StringOf(lastCall.ext[1].value)
  /\ report.data[2].type = "extracted"
  /\ report.data[1].id > report.data[2].id
  /\ Len(report.conversation) = 2

(* C30: decideAndAskNextQuestion and addAgentQuestionToConversation (the    *)
(* write of /init and /respond) leave the report's data array unchanged,   *)
(* and a successful addClientMessage adds exactly one conversation entry,  *)
(* with author "client" and the raw client text.                           *)
C30_FrameOfReportWrites ==
  [][ /\ (sessionExists /\ lastCall'.op \in {"decideAndAskNextQuestion", "respond"})
           => report'.data = report.data
      /\ lastCall'.op = "init" => report'.data = report.data
      /\ (lastCall'.op = "addClientMessage" /\ response'.status = 200)
           => LET n == Len(report.conversation)
              IN  /\ Len(report'.conversation) = n + 1
                  /\ SubSeq(report'.conversation, 1, n) = report.conversation
                  /\ report'.conversation[n + 1].author = "client"
                  /\ report'.conversation[n + 1].text = lastCall'.text
    ]_vars

\* decideAndAskNextQuestion has asked a question of a session that has data
C30_Witness ==
  /\ lastCall.op = "decideAndAskNextQuestion"
  /\ response.questionId # NoQuestion
  /\ Len(report.data) = 2
  /\ Len(report.conversation) = 2
  /\ report.conversation[1].author = "client"
  /\ report.conversation[1].text = <<"KCD-12">>
  /\ report.conversation[2].author = "agent"
  /\ report.conversation[2].id > report.data[2].id

(* C31: after startSession and after every turn that issues a question     *)
(* (/init, /respond, decideAndAskNextQuestion), the persisted              *)
(* sessionState.currentOrder is the order of the question being asked.     *)
C31_CurrentOrderIsAsked ==
  ( /\ sessionExists
    /\ lastCall.op \in {"startSession", "init", "respond", "decideAndAskNextQuestion"}
    /\ response.questionId # NoQuestion )
    => sessionState.currentOrder = TemplateOfId(response.questionId).order

\* the client entries of a conversation that follow an agent entry with no
\* other client entry in between
PairedClients(conversation) ==
  {j \in 1..Len(conversation) :
     /\ conversation[j].author = "client"
     /\ \E i \in 1..(j - 1) :
          /\ conversation[i].author = "agent"
          /\ \A k \in (i + 1)..(j - 1) : conversation[k].author # "client"}

\* the text of the latest agent entry before entry j
LatestQuestionBefore(conversation, j) ==
  LET agents == {i \in 1..(j - 1) : conversation[i].author = "agent"}
  IN  conversation[CHOOSE i \in agents : \A k \in agents : k <= i].text

(* C32: getConversationHistory returns, in conversation order, one         *)
(* (question, answer) pair for each client entry that follows an agent     *)
(* entry with no other client entry in between, the question being the     *)
(* text of the latest agent entry before it; a client entry is in at most  *)
(* one pair, and one with no unpaired agent entry before it is in none.    *)
C32_HistoryPairs ==
  response.kind = "history"
    => LET conversation == report.conversation
           paired  == SelectSeq([j \in 1..Len(conversation) |-> j],
                                LAMBDA j : j \in PairedClients(conversation))
       IN  /\ Len(response.history) = Len(paired)
           /\ \A n \in 1..Len(paired) :
                /\ response.history[n].answer = conversation[paired[n]].text
                /\ response.history[n].question
                     = LatestQuestionBefore(conversation, paired[n])

\* agent, agent, client, client, agent: one pair, of the second question and
\* the first reply
C32_Witness ==
  /\ response.kind = "history"
  /\ Len(report.conversation) = 5
  /\ report.conversation[1].author = "agent"
  /\ report.conversation[2].author = "agent"
  /\ report.conversation[3].author = "client"
  /\ report.conversation[4].author = "client"
  /\ report.conversation[5].author = "agent"
  /\ report.conversation[1].text # report.conversation[2].text
  /\ report.conversation[3].text # report.conversation[4].text
  /\ response.history = <<[question |-> report.conversation[2].text,
                           answer   |-> report.conversation[3].text]>>

(* C33: after every operation that writes the report (startSession,        *)
(* addClientMessage, decideAndAskNextQuestion,                             *)
(* addAgentQuestionToConversation) the persisted report document has       *)
(* exactly the two fields conversation and data: the flattened view is     *)
(* not stored in it.                                                       *)
C33_ReportHasTwoFields ==
  ( /\ sessionExists
    /\ lastCall.op \in {"startSession", "addClientMessage",
                        "decideAndAskNextQuestion",
                        "addAgentQuestionToConversation"} )
    => /\ DOMAIN report = {"conversation", "data", "flat"}
       /\ report.flat = <<>>

(* C34: every data entry of a persisted report has a key that is the       *)
(* dataKey of one of the survey's question templates, whatever keys the    *)
(* extraction result contains.                                             *)
C34_DataKeysAreSurveyKeys ==
  \A i \in 1..Len(report.data) :
    \E q \in 1..Len(questions) : report.data[i].key = questions[q].dataKey

\* the client turns taken so far
ClientTurns == Len(SelectSeq(report.conversation, LAMBDA m : m.author = "client"))

\* the questions of the survey with no data entry yet
Unanswered ==
  Cardinality({q \in 1..Len(questions) : ~KeyHasEntry(report.data, questions[q].dataKey)})

(* C35: with DummyImpl, a session over a survey of N questions with        *)
(* distinct dataKeys is completed after at most N client turns             *)
(* (addClientMessage then decideAndAskNextQuestion): each turn answers the *)
(* question being asked, so after k turns at most N - k questions are      *)
(* unanswered, and the decision of the N-th turn at the latest completes.  *)
C35_CompletedWithinNTurns ==
  sessionExists =>
    /\ Unanswered = 0 \/ Unanswered + ClientTurns <= Len(questions)
    /\ ( /\ lastCall.op = "decideAndAskNextQuestion"
         /\ ClientTurns >= Len(questions) ) => sessionState.completed

\* three questions, each answered by its own turn: completed by the decision
\* of the third
C35_Witness ==
  /\ Len(questions) = NumQuestions
  /\ ClientTurns = NumQuestions
  /\ Len(report.data) = NumQuestions
  /\ lastCall.op = "decideAndAskNextQuestion"
  /\ sessionState.completed
  /\ Unanswered = 0

(* C36: under any interleaving of two concurrent /respond turns on one     *)
(* session, once completed = true has been persisted no later write of the *)
(* session state stores completed = false.                                 *)
C36_CompletedIsNeverUndone ==
  [][ (sessionExists /\ sessionState.completed) => sessionState'.completed ]_vars

\* completed = true has been persisted by one request's endSession while the
\* other, which read the state before that write, has yet to write it back
C36_Witness ==
  /\ sessionExists
  /\ sessionState.completed
  /\ lastCall.op = "respond"
  /\ response.kind = "completed"
  /\ \E r \in Requests :
       /\ At(r, "read")
       /\ ~inflight[r].state.completed

(* C37: for ServiceBase and BaseFastifyPlugin, runState becomes "running"  *)
(* only after initialization has finished with runState "initialized";     *)
(* when initialization fails, ready rejects, start() and stop() reject,    *)
(* and runState is "failed" and never becomes "running" or "stopped".      *)
C37_RunStateFollowsInitialization ==
  /\ runnable.runState \in {"starting", "running", "stopping", "stopped"}
       => runnable.init = "done" /\ runnable.ready = "resolved"
  /\ runnable.init = "done" <=> runnable.ready = "resolved"
  /\ runnable.init = "threw"
       => /\ runnable.ready = "rejected"
          /\ runnable.runState = "failed"
          /\ runnable.started \in {"none", "pending", "rejected"}
          /\ runnable.stopped \in {"none", "pending", "rejected"}

\* the initialization of a plugin failed, and a start() and a stop() called
\* before it did have both rejected
C37_Witness ==
  /\ runnable.kind = "BaseFastifyPlugin"
  /\ runnable.init = "threw"
  /\ runnable.ready = "rejected"
  /\ runnable.started = "rejected"
  /\ runnable.stopped = "rejected"
  /\ runnable.runState = "failed"

\* the value an extraction result holds for the question being asked
AskedValue == GetProperty(lastCall.ext, AskedKey(report.conversation))

\* addClientMessage has merged a non-null extraction result
ExtractionSucceeded ==
  /\ sessionExists
  /\ lastCall.op = "addClientMessage"
  /\ ~lastCall.extNull

(* C38: the questions being freeform, every non-null result of             *)
(* YandexImpl.extractData holds a non-null value for the dataKey of the    *)
(* question being asked, and so answers it: addClientMessage stores a data *)
(* entry for that key.                                                     *)
C38_FreeformAnswersAskedQuestion ==
  ExtractionSucceeded
    => /\ AskedValue # NullValue
       /\ IsStored(AskedValue)
       /\ KeyHasEntry(report.data, AskedKey(report.conversation))

====
